---------------------------- MODULE Spec2Model ----------------------------
(***************************************************************************)
(* Intent-to-device reconciliation backend (FastAPI + NetBox + Netmiko /   *)
(* ncclient).  The module models                                           *)
(*   - the text functions of backend/services/interface_intent.py          *)
(*     (compiler, normalizer, unified diff),                               *)
(*   - the result construction of backend/services/compare_service.py,     *)
(*   - the DeviceClient session of backend/netconf_ops.py,                 *)
(*   - the request handlers of backend/api/routes and backend/services.    *)
(*                                                                         *)
(* Text.  A Python string is modelled as the sequence of its atoms: a      *)
(* whitespace character (" ", "\t"), a punctuation character               *)
(* ("!", ",", ".", "/") or a maximal run of other characters (a word or a  *)
(* decimal number).  Adjacent atoms are concatenated, so                   *)
(* <<"10", ".", "0", ".", "0", ".", "1", "/", "24">> is "10.0.0.1/24".      *)
(***************************************************************************)
EXTENDS Integers, Sequences, FiniteSets, TLC

(***************************************************************************)
(* Bounds of the model.                                                    *)
(***************************************************************************)
MaxIps == 2
MaxTagged == 2
MaxRaw == 2

(***************************************************************************)
(* Python string primitives on atom sequences.                             *)
(***************************************************************************)
WS == {" ", "\t"}

\* Every atom of the model in Python's str order (code point order).
AtomOrder ==
  <<"\t", " ", "!", ",", ".", "/", "0", "1", "10", "128", "16", "168", "192",
    "20", "2001:db8::1", "24", "25", "252", "254", "255", "30", "32", "64",
    "9000", "Building", "Current", "Description", "END", "Gi",
    "GigabitEthernet", "IP", "Interface", "Switchport", "access", "access-group", "address",
    "allowed", "building", "configuration", "core", "current", "description",
    "end", "in", "interface", "ip", "link", "mode", "mtu", "native", "no",
    "shutdown", "switchport", "trunk", "uplink", "vlan">>

Rank(a) == CHOOSE i \in DOMAIN AtomOrder : AtomOrder[i] = a

\* str.__lt__ : lexicographic comparison.
RECURSIVE StrLess(_, _)
StrLess(a, b) ==
  IF b = <<>> THEN FALSE
  ELSE IF a = <<>> THEN TRUE
  ELSE IF Head(a) = Head(b) THEN StrLess(Tail(a), Tail(b))
  ELSE Rank(Head(a)) < Rank(Head(b))

\* str.lower() on one atom; atoms without upper-case letters are unchanged.
LowerAtom(a) ==
  CASE a = "Building" -> "building"
    [] a = "Current" -> "current"
    [] a = "Description" -> "description"
    [] a = "END" -> "end"
    [] a = "Gi" -> "gi"
    [] a = "GigabitEthernet" -> "gigabitethernet"
    [] a = "IP" -> "ip"
    [] a = "Interface" -> "interface"
    [] a = "Switchport" -> "switchport"
    [] OTHER -> a

Lower(s) == [i \in DOMAIN s |-> LowerAtom(s[i])]

\* str.startswith(p)
StartsWith(s, p) == Len(s) >= Len(p) /\ SubSeq(s, 1, Len(p)) = p

\* p in s  (substring test)
Contains(s, p) ==
  \E i \in 1..(Len(s) + 1) :
    i + Len(p) - 1 <= Len(s) /\ SubSeq(s, i, i + Len(p) - 1) = p

\* str.strip()
RECURSIVE LStrip(_)
LStrip(s) == IF s # <<>> /\ Head(s) \in WS THEN LStrip(Tail(s)) ELSE s

RECURSIVE RStrip(_)
RStrip(s) ==
  IF s # <<>> /\ s[Len(s)] \in WS THEN RStrip(SubSeq(s, 1, Len(s) - 1)) ELSE s

Strip(s) == RStrip(LStrip(s))

\* re.sub(r"\s+", " ", s)
RECURSIVE CollapseWS(_)
CollapseWS(s) ==
  IF s = <<>> THEN <<>>
  ELSE IF Head(s) \in WS
       THEN <<" ">> \o CollapseWS(LStrip(Tail(s)))
       ELSE <<Head(s)>> \o CollapseWS(Tail(s))

\* sep.join(parts)
RECURSIVE Join(_, _)
Join(sep, parts) ==
  IF parts = <<>> THEN <<>>
  ELSE IF Len(parts) = 1 THEN Head(parts)
  ELSE Head(parts) \o sep \o Join(sep, Tail(parts))

\* str(n) for an int, and int(s) for a decimal atom.
Str(n) == <<ToString(n)>>

AtomToInt(a) == CHOOSE n \in 0..255 : ToString(n) = a

\* dict.get(k, default)
Get(d, k, default) == IF k \in DOMAIN d THEN d[k] ELSE default

\* Python truthiness of None / "" / [] / {} (all modelled as the empty function).
Truthy(x) == DOMAIN x # {}

None == <<>>

(***************************************************************************)
(* backend/services/interface_intent.py                                    *)
(***************************************************************************)

\* ipaddress.ip_interface(cidr): position of "/" (0 when absent: a /32 host).
SlashPos(cidr) ==
  IF \E i \in DOMAIN cidr : cidr[i] = "/"
  THEN CHOOSE i \in DOMAIN cidr : cidr[i] = "/"
  ELSE 0

PrefixLen(cidr) ==
  IF SlashPos(cidr) = 0 THEN 32 ELSE AtomToInt(cidr[SlashPos(cidr) + 1])

Octets(cidr) == [i \in 1..4 |-> AtomToInt(cidr[2 * i - 1])]

\* iface.network.netmask, octet i of the mask of a prefix of length plen.
MaskBits(plen, i) ==
  IF plen - 8 * (i - 1) < 0 THEN 0
  ELSE IF plen - 8 * (i - 1) > 8 THEN 8
  ELSE plen - 8 * (i - 1)

MaskOctets(plen) == [i \in 1..4 |-> 256 - 2 ^ (8 - MaskBits(plen, i))]

Dotted(o) == Join(<<".">>, [i \in 1..4 |-> Str(o[i])])

cidr_to_ip_mask(cidr) ==
  <<Dotted(Octets(cidr)), Dotted(MaskOctets(PrefixLen(cidr)))>>

\* next((ip.get("address") for ip in nb_ips if "." in (ip.get("address") or "")), None)
RECURSIVE FirstIPv4(_)
FirstIPv4(nb_ips) ==
  IF nb_ips = <<>> THEN None
  ELSE IF Contains(Get(Head(nb_ips), "address", <<>>), <<".">>)
       THEN Head(nb_ips).address
       ELSE FirstIPv4(Tail(nb_ips))

\* [str(v["vid"]) for v in tagged if v.get("vid") is not None]
Vids(tagged) == [i \in DOMAIN tagged |-> Str(tagged[i].vid)]

\* untagged and untagged.get("vid")
HasVid(untagged) == Truthy(untagged) /\ Get(untagged, "vid", 0) # 0

DescLines(nb_iface) ==
  IF Truthy(Get(nb_iface, "description", <<>>))
  THEN << <<"description", " ">> \o nb_iface.description >>
  ELSE <<>>

\* Variant: the admin-state line emitted whatever include_admin says.
AdminLines_always(nb_iface, include_admin) ==
  IF Get(nb_iface, "enabled", TRUE)
  THEN << <<"no", " ", "shutdown">> >>
  ELSE << <<"shutdown">> >>

AdminLines(nb_iface, include_admin) ==
  IF include_admin
  THEN IF Get(nb_iface, "enabled", TRUE)
       THEN << <<"no", " ", "shutdown">> >>
       ELSE << <<"shutdown">> >>
  ELSE <<>>

\* Variant: "no switchport" appended after the description instead of insert(0, ...).
L3Lines_appended(head, ip4) ==
  head \o << <<"no", " ", "switchport">> >> \o
  << <<"ip", " ", "address", " ">> \o cidr_to_ip_mask(ip4)[1] \o <<" ">>
       \o cidr_to_ip_mask(ip4)[2] >>

L3Lines(head, ip4) ==
  << <<"no", " ", "switchport">> >> \o head \o
  << <<"ip", " ", "address", " ">> \o cidr_to_ip_mask(ip4)[1] \o <<" ">>
       \o cidr_to_ip_mask(ip4)[2] >>

\* Variant: the access VLAN line ahead of the mode line.
AccessLines_vlan_first(untagged) ==
  << <<"switchport">> >> \o
  (IF HasVid(untagged)
   THEN << <<"switchport", " ", "access", " ", "vlan", " ">>
             \o Str(untagged.vid) >>
   ELSE <<>>) \o
  << <<"switchport", " ", "mode", " ", "access">> >>

AccessLines(untagged) ==
  << <<"switchport">>, <<"switchport", " ", "mode", " ", "access">> >> \o
  (IF HasVid(untagged)
   THEN << <<"switchport", " ", "access", " ", "vlan", " ">>
             \o Str(untagged.vid) >>
   ELSE <<>>)

\* Variant: the allowed-VLAN list emitted for every trunk that has tagged VLANs.
TrunkLines_allowed_always(mode, untagged, tagged) ==
  << <<"switchport">>, <<"switchport", " ", "mode", " ", "trunk">> >> \o
  (IF Vids(tagged) # <<>>
   THEN << <<"switchport", " ", "trunk", " ", "allowed", " ", "vlan", " ">>
             \o Join(<<",">>, Vids(tagged)) >>
   ELSE <<>>) \o
  (IF HasVid(untagged)
   THEN << <<"switchport", " ", "trunk", " ", "native", " ", "vlan", " ">>
             \o Str(untagged.vid) >>
   ELSE <<>>)

TrunkLines(mode, untagged, tagged) ==
  << <<"switchport">>, <<"switchport", " ", "mode", " ", "trunk">> >> \o
  (IF mode = "tagged" /\ Vids(tagged) # <<>>
   THEN << <<"switchport", " ", "trunk", " ", "allowed", " ", "vlan", " ">>
             \o Join(<<",">>, Vids(tagged)) >>
   ELSE <<>>) \o
  (IF HasVid(untagged)
   THEN << <<"switchport", " ", "trunk", " ", "native", " ", "vlan", " ">>
             \o Str(untagged.vid) >>
   ELSE <<>>)

L2Lines(nb_iface) ==
  IF Get(nb_iface, "mode", "None") = "access"
  THEN AccessLines(Get(nb_iface, "untagged_vlan", None))
  ELSE IF Get(nb_iface, "mode", "None") \in {"tagged", "tagged-all"}
       THEN TrunkLines(nb_iface.mode, Get(nb_iface, "untagged_vlan", None),
                       Get(nb_iface, "tagged_vlans", <<>>))
       ELSE <<>>

\* Variant: the L3 branch does not return, the L2 lines follow the IP line.
nb_to_intended_lines_cisco_fallthrough(nb_iface, nb_ips, include_admin) ==
  IF Truthy(FirstIPv4(nb_ips))
  THEN L3Lines(DescLines(nb_iface) \o AdminLines(nb_iface, include_admin),
               FirstIPv4(nb_ips)) \o L2Lines(nb_iface)
  ELSE DescLines(nb_iface) \o AdminLines(nb_iface, include_admin)
         \o L2Lines(nb_iface)

nb_to_intended_lines_cisco(nb_iface, nb_ips, include_admin) ==
  IF Truthy(FirstIPv4(nb_ips))
  THEN L3Lines(DescLines(nb_iface) \o AdminLines(nb_iface, include_admin),
               FirstIPv4(nb_ips))
  ELSE DescLines(nb_iface) \o AdminLines(nb_iface, include_admin)
         \o L2Lines(nb_iface)

\* main.py: "if include_admin:" is indented under "if desc:", so the
\* admin-state line is compiled only for an interface with a description.
main_nb_to_intended_lines_cisco(nb_iface, nb_ips, include_admin) ==
  LET head == IF DescLines(nb_iface) # <<>>
              THEN DescLines(nb_iface) \o AdminLines(nb_iface, include_admin)
              ELSE <<>>
  IN IF Truthy(FirstIPv4(nb_ips))
     THEN L3Lines(head, FirstIPv4(nb_ips))
     ELSE head \o L2Lines(nb_iface)

nb_to_intended_lines(platform, nb_iface, nb_ips, include_admin) ==
  IF platform \in {"ios-xe", "ios"}
  THEN nb_to_intended_lines_cisco(nb_iface, nb_ips, include_admin)
  ELSE <<>>


\* One input line of normalize_lines after  re.sub(r"\s+", " ", (ln or "").strip()).
\* Variant: only one leading whitespace character is stripped.
CleanLine_once(ln) ==
  CollapseWS(IF ln # <<>> /\ Head(ln) \in WS THEN Tail(ln) ELSE ln)

CleanLine(ln) == CollapseWS(Strip(ln))

\* Variant: no noise filter.
NoiseLine_none(low) == FALSE

NoiseLine(low) ==
  \/ StartsWith(low, <<"current", " ", "configuration">>)
  \/ StartsWith(low, <<"building", " ", "configuration">>)
  \/ low \in {<<"end">>, <<"!">>}

\* Variant: every statement counts as managed.
ManagedLine_any(low) == TRUE

\* Variant: the whitelist prefix "switchport" without its trailing space.
ManagedLine_bare_switchport(low) ==
  \/ StartsWith(low, <<"description", " ">>)
  \/ low = <<"no", " ", "switchport">>
  \/ StartsWith(low, <<"switchport">>)
  \/ StartsWith(low, <<"ip", " ", "address", " ">>)

ManagedLine(low) ==
  \/ StartsWith(low, <<"description", " ">>)
  \/ low = <<"no", " ", "switchport">>
  \/ StartsWith(low, <<"switchport", " ">>)
  \/ StartsWith(low, <<"ip", " ", "address", " ">>)

KeepLine(ln, mode) ==
  /\ ln # <<>>
  /\ ~NoiseLine(Lower(ln))
  /\ mode = "managed" => ManagedLine(Lower(ln))

\* sorted(S) for a set of strings
RECURSIVE Sorted(_)
Sorted(S) ==
  IF S = {} THEN <<>>
  ELSE LET m == CHOOSE x \in S : \A y \in S : x = y \/ StrLess(x, y)
       IN <<m>> \o Sorted(S \ {m})

\* Variant: the managed whitelist is not applied.
normalize_lines_unfiltered(lines, mode) ==
  Sorted({CleanLine(lines[i]) : i \in {j \in DOMAIN lines :
                                  KeepLine(CleanLine(lines[j]), "all")}})

\* Variant: the kept lines in input order, neither sorted nor deduplicated.
normalize_lines_in_order(lines, mode) ==
  LET Keep(l) == KeepLine(CleanLine(l), mode)
  IN [i \in DOMAIN SelectSeq(lines, Keep) |-> CleanLine(SelectSeq(lines, Keep)[i])]

normalize_lines(lines, mode) ==
  Sorted({CleanLine(lines[i]) : i \in {j \in DOMAIN lines :
                                  KeepLine(CleanLine(lines[j]), mode)}})

(***************************************************************************)
(* difflib.unified_diff(running_n, intended_n, fromfile="device_running",  *)
(* tofile="sot_intended", lineterm="") with its default of 3 context lines *)
(* for two sorted lists without duplicates.  Every line common to both     *)
(* lists is matched; between two matches the lines of the first list are   *)
(* printed with "-", then those of the second with "+".  The lists of the  *)
(* model are too short for a second hunk (it needs 7 equal lines between   *)
(* two changes).                                                           *)
(***************************************************************************)
InSeq(x, s) == \E i \in DOMAIN s : s[i] = x

RECURSIVE OnlyPrefix(_, _)
OnlyPrefix(a, b) ==
  IF a = <<>> \/ InSeq(Head(a), b) THEN <<>>
  ELSE <<Head(a)>> \o OnlyPrefix(Tail(a), b)

Tagged(tag, s) == [i \in DOMAIN s |-> [tag |-> tag, line |-> s[i]]]

RECURSIVE Opcodes(_, _)
Opcodes(a, b) ==
  LET pa == OnlyPrefix(a, b)
      pb == OnlyPrefix(b, a)
      ra == SubSeq(a, Len(pa) + 1, Len(a))
      rb == SubSeq(b, Len(pb) + 1, Len(b))
  IN Tagged("-", pa) \o Tagged("+", pb) \o
     (IF ra = <<>> THEN <<>>
      ELSE Tagged(" ", <<Head(ra)>>) \o Opcodes(Tail(ra), Tail(rb)))

Changed(t) == {i \in DOMAIN t : t[i].tag # " "}

Min(S) == CHOOSE x \in S : \A y \in S : x <= y

Max(S) == CHOOSE x \in S : \A y \in S : x >= y

CountTags(t, tags) == Cardinality({i \in DOMAIN t : t[i].tag \in tags})

\* difflib._format_range_unified
FormatRange(start, length) ==
  IF length = 1 THEN Str(start + 1)
  ELSE IF length = 0 THEN Str(start) \o <<",">> \o Str(0)
  ELSE Str(start + 1) \o <<",">> \o Str(length)

Hunk(t) ==
  LET lo == Max({1, Min(Changed(t)) - 3})
      hi == Min({Len(t), Max(Changed(t)) + 3})
      before == SubSeq(t, 1, lo - 1)
      body == SubSeq(t, lo, hi)
  IN << <<"@@", " ", "-">>
          \o FormatRange(CountTags(before, {" ", "-"}), CountTags(body, {" ", "-"}))
          \o <<" ", "+">>
          \o FormatRange(CountTags(before, {" ", "+"}), CountTags(body, {" ", "+"}))
          \o <<" ", "@@">> >>
     \o [i \in DOMAIN body |-> <<body[i].tag>> \o body[i].line]

unified_diff(running_n, intended_n) ==
  IF Changed(Opcodes(running_n, intended_n)) = {} THEN <<>>
  ELSE << <<"---", " ", "device_running">>, <<"+++", " ", "sot_intended">> >>
         \o Hunk(Opcodes(running_n, intended_n))

(***************************************************************************)
(* backend/netconf_ops.py: the filter of get_running_interface_block over   *)
(* the lines of the reply to "show running-config interface <name>".       *)
(***************************************************************************)
BlockLine(ln) ==
  /\ ln # <<>>
  /\ ln # <<"!">>
  /\ ~StartsWith(Lower(ln), <<"interface", " ">>)
  /\ ~Contains(Lower(ln), <<"building", " ", "configuration">>)

RECURSIVE FilterBlock(_)
FilterBlock(rawlines) ==
  IF rawlines = <<>> THEN <<>>
  ELSE (IF BlockLine(Strip(Head(rawlines))) THEN <<Strip(Head(rawlines))>> ELSE <<>>)
         \o FilterBlock(Tail(rawlines))

(***************************************************************************)
(* backend/services/compare_service.py: the result of                      *)
(* compare_interface_config, lines 33-60, from the inventory record, the   *)
(* compiled lines, the running block and the status record.  Python's      *)
(* True / False / None are the strings "True", "False", "None".            *)
(***************************************************************************)
PyBool(b) == IF b THEN "True" ELSE "False"

\* status.get(key) if isinstance(status, dict) else None
StatusField(st, key) == IF st.isdict THEN Get(st.d, key, "None") ELSE "None"

\* Variant: an unknown device admin state counts as a mismatch.
StateInSync_strict(sot_enabled, dev_admin_up) ==
  PyBool(sot_enabled) = dev_admin_up

StateInSync(sot_enabled, dev_admin_up) ==
  dev_admin_up = "None" \/ PyBool(sot_enabled) = dev_admin_up

\* Variant: the admin state is left out of the overall verdict.
OverallInSync_config_only(running_n, intended_n, state_in_sync) ==
  running_n = intended_n

OverallInSync(running_n, intended_n, state_in_sync) ==
  running_n = intended_n /\ state_in_sync

CompareResult(platform, iface, intended, running, st) ==
  LET sot_enabled == Get(iface, "enabled", TRUE)
      dev_admin_up == StatusField(st, "admin_up")
      dev_oper_up == StatusField(st, "oper_up")
      state_in_sync == StateInSync(sot_enabled, dev_admin_up)
      intended_n == normalize_lines(intended, "managed")
      running_n == normalize_lines(running, "managed")
  IN [platform |-> platform,
      state |-> [sot_enabled |-> sot_enabled,
                 device_admin_up |-> dev_admin_up,
                 device_oper_up |-> dev_oper_up,
                 raw |-> st,
                 in_sync |-> state_in_sync],
      config |-> [in_sync |-> running_n = intended_n,
                  intended_lines |-> intended_n,
                  running_lines |-> running_n,
                  diff |-> unified_diff(running_n, intended_n)],
      in_sync |-> OverallInSync(running_n, intended_n, state_in_sync)]


(***************************************************************************)
(* backend/netconf_ops.py: DeviceClient.                                   *)
(*                                                                         *)
(* A client is a record: netconf and ssh are the attributes self.netconf   *)
(* and self.ssh ("None" or the connection object), log is the sequence of  *)
(* calls made on the two transports (ncclient, Netmiko), in order.  A      *)
(* method is the set of its possible outcomes [s, exc, ret]: the client    *)
(* after the call, the exception raised ("none" when it returns) and the   *)
(* value returned.  The transport decides which outcome happens: a connect *)
(* or a send may fail, a reply may or may not ask for confirmation.        *)
(* A text (a reply, an output) is a sequence of lines.                     *)
(***************************************************************************)
Out(s, exc, ret) == [s |-> s, exc |-> exc, ret |-> ret]

Logged(s, e) == [s EXCEPT !.log = Append(@, e)]

\* Sequential composition: F runs on every outcome that did not raise.
Then(outs, F(_)) == UNION {IF o.exc = "none" THEN F(o) ELSE {o} : o \in outs}

\* What the device may answer to a command of each kind.
Replies(kind) ==
  CASE kind = "timing" -> {<<>>, << <<"[", "confirm", "]">> >>}
    [] kind = "command" -> {<<>>, << <<"description", " ", "uplink">> >>}
    [] OTHER -> {<<>>}

NewClient(netconf_name, netmiko_type) ==
  [netconf |-> "None", ssh |-> "None", netconf_device_name |-> netconf_name,
   netmiko_device_type |-> netmiko_type, log |-> <<>>]

try_connect_netconf(s) ==
  { Out(Logged([s EXCEPT !.netconf = "session"],
               [ev |-> "nc_connect", ok |-> TRUE, dialect |-> s.netconf_device_name]),
        "none", None),
    Out(Logged(s, [ev |-> "nc_connect", ok |-> FALSE, dialect |-> s.netconf_device_name]),
        "none", None) }

DeviceClient_init(netconf_name, netmiko_type) ==
  try_connect_netconf(NewClient(netconf_name, netmiko_type))

\* Variant: a new SSH connection for every call, the open one ignored.
ensure_ssh_reconnect(s) ==
  { Out(Logged([s EXCEPT !.ssh = "conn"],
               [ev |-> "ssh_connect", ok |-> TRUE, dialect |-> s.netmiko_device_type]),
        "none", None),
    Out(Logged(s, [ev |-> "ssh_connect", ok |-> FALSE,
                   dialect |-> s.netmiko_device_type]),
        "NetmikoException", None) }

ensure_ssh(s) ==
  IF s.ssh # "None" THEN {Out(s, "none", None)}
  ELSE { Out(Logged([s EXCEPT !.ssh = "conn"],
                    [ev |-> "ssh_connect", ok |-> TRUE, dialect |-> s.netmiko_device_type]),
             "none", None),
         Out(Logged(s, [ev |-> "ssh_connect", ok |-> FALSE,
                        dialect |-> s.netmiko_device_type]),
             "NetmikoException", None) }

\* conn.send_command / send_command_timing / send_config_set
ConnSend(s, kind, cmds) ==
  {Out(Logged(s, [ev |-> "ssh_send", ok |-> TRUE, kind |-> kind, cmds |-> cmds,
                  reply |-> r]),
       "none", r) : r \in Replies(kind)}
    \cup {Out(Logged(s, [ev |-> "ssh_send", ok |-> FALSE, kind |-> kind, cmds |-> cmds,
                         reply |-> None]),
              "NetmikoException", None)}

\* Variant: a missing NETCONF session is connected again before the call.
NetconfCall_reconnect(s, rpc) ==
  Then(IF s.netconf = "None" THEN try_connect_netconf(s) ELSE {Out(s, "none", None)},
       LAMBDA o :
         IF o.s.netconf = "None" THEN {Out(o.s, "AttributeError", None)}
         ELSE { Out(Logged(o.s, [ev |-> "nc_rpc", ok |-> TRUE, rpc |-> rpc]), "none", None),
                Out(Logged(o.s, [ev |-> "nc_rpc", ok |-> FALSE, rpc |-> rpc]),
                    "RPCError", None) })

\* self.netconf.dispatch(rpc) / self.netconf.edit_config(...)
NetconfCall(s, rpc) ==
  IF s.netconf = "None" THEN {Out(s, "AttributeError", None)}
  ELSE { Out(Logged(s, [ev |-> "nc_rpc", ok |-> TRUE, rpc |-> rpc]), "none", None),
         Out(Logged(s, [ev |-> "nc_rpc", ok |-> FALSE, rpc |-> rpc]), "RPCError", None) }

send_command(s, cmd) ==
  Then(ensure_ssh(s), LAMBDA o : ConnSend(o.s, "command", <<cmd>>))

send_config_lines(s, ls) ==
  Then(ensure_ssh(s), LAMBDA o : ConnSend(o.s, "config", ls))

get_running_interface_block(s, interface) ==
  {Out(o.s, o.exc, FilterBlock(o.ret)) :
     o \in send_command(s, <<"show", " ", "running-config", " ", "interface", " ">>
                             \o interface)}

\* DeviceClient defines no method of this name: the attribute lookup in
\* compare_interface_config raises.
get_interface_status_textfsm(s, interface) == {Out(s, "AttributeError", None)}

\* get_mac_table_netconf never raises: any failure gives an empty table.
get_mac_table_netconf(s, interface) ==
  IF s.netconf = "None" THEN {Out(s, "none", <<>>)}
  ELSE { Out(Logged(s, [ev |-> "nc_rpc", ok |-> TRUE, rpc |-> "exec show mac address-table"]),
             "none", r) : r \in {<<>>, << <<"entry">> >>} }
       \cup { Out(Logged(s, [ev |-> "nc_rpc", ok |-> FALSE,
                            rpc |-> "exec show mac address-table"]), "none", <<>>) }

get_mac_table_ssh(s, interface) ==
  send_command(s, <<"show", " ", "mac", " ", "address-table", " ", "interface", " ">>
                    \o interface)

get_mac_table(s, interface) ==
  Then(get_mac_table_netconf(s, interface),
       LAMBDA o : IF o.ret # <<>> THEN {o} ELSE get_mac_table_ssh(o.s, interface))

get_interface_state(s, interface) ==
  send_command(s, <<"show", " ", "interface", " ">> \o interface)

show_counters(s, interface) ==
  send_command(s, <<"show", " ", "interfaces", " ">> \o interface)

show_dhcp_bindings(s) ==
  send_command(s, <<"show", " ", "ip", " ", "dhcp", " ", "binding">>)

InText(text, p) == \E i \in DOMAIN text : Contains(text[i], p)

LowerText(text) == [i \in DOMAIN text |-> Lower(text[i])]

clear_dhcp_binding(s, ip_address) ==
  Then(Then(ensure_ssh(s),
            LAMBDA o : ConnSend(o.s, "timing",
                         << <<"clear", " ", "ip", " ", "dhcp", " ", "binding", " ">>
                              \o (IF ip_address = None THEN <<"None">> ELSE ip_address) >>)),
       LAMBDA o :
         IF InText(o.ret, <<"[", "confirm", "]">>)
              \/ InText(LowerText(o.ret), <<"clear", " ", "all">>)
         THEN {Out(c.s, c.exc, o.ret \o c.ret) : c \in ConnSend(o.s, "timing", << <<"\n">> >>)}
         ELSE {o})

clear_counters(s, interface) ==
  Then(Then(ensure_ssh(s),
            LAMBDA o : ConnSend(o.s, "timing",
                         << <<"clear", " ", "counters", " ">> \o interface >>)),
       LAMBDA o :
         {Out(c.s, c.exc, o.ret \o c.ret) : c \in ConnSend(o.s, "timing", << <<"\n">> >>)})

clear_dhcp(s, ip_address) == NetconfCall(s, "clear-dhcp-binding")

\* get_interface_type_and_name: the interface type must be a key of type_map.
InterfaceTypeKnown(interface) ==
  /\ Strip(interface) # <<>>
  /\ LowerAtom(Head(Strip(interface)))
       \in {"gigabitethernet", "fastethernet", "tengigabitethernet", "vlan"}

shutdown(s, interface) ==
  IF InterfaceTypeKnown(interface)
  THEN NetconfCall(s, "edit-config shutdown")
  ELSE {Out(s, "ValueError", None)}

no_shutdown(s, interface) ==
  IF InterfaceTypeKnown(interface)
  THEN NetconfCall(s, "edit-config no shutdown")
  ELSE {Out(s, "ValueError", None)}

\* Variant: the interface is brought up first and shut down last.
restart_reversed(s, interface) ==
  Then(no_shutdown(s, interface), LAMBDA o : shutdown(o.s, interface))

restart(s, interface) ==
  Then(shutdown(s, interface), LAMBDA o : no_shutdown(o.s, interface))

\* (platform or "").strip().lower()
NormPlatform(platform) ==
  CASE platform = "IOS-XE" -> "ios-xe"
    [] platform = " junos " -> "junos"
    [] OTHER -> platform

ScopeCmd(base, interface, vlan) ==
  IF Truthy(interface) THEN base \o <<" ", "interface", " ">> \o interface
  ELSE IF vlan # None THEN base \o <<" ", "vlan", " ">> \o Str(vlan[1])
  ELSE base

cisco_like_cmd(interface, vlan, dynamic_only) ==
  ScopeCmd(<<"clear", " ", "mac", " ", "address-table">>
             \o (IF dynamic_only THEN <<" ", "dynamic">> ELSE <<>>),
           interface, vlan)

junos_cmd(interface, vlan) ==
  ScopeCmd(<<"clear", " ", "ethernet-switching", " ", "table">>, interface, vlan)

ClearMacCheck_unvalidated(platform, interface, vlan) == "ok"

\* The validation of clear_mac_table: "scopes", "platform" or "ok".
ClearMacCheck(platform, interface, vlan) ==
  IF Truthy(interface) /\ vlan # None THEN "scopes"
  ELSE IF NormPlatform(platform) \in {"ios", "ios-xe", "nxos", "eos", "junos"} THEN "ok"
  ELSE "platform"

ClearMacCmd(platform, interface, vlan, dynamic_only) ==
  IF NormPlatform(platform) = "junos" THEN junos_cmd(interface, vlan)
  ELSE cisco_like_cmd(interface, vlan, dynamic_only)

ClearMacDispatch(s, cmd) ==
  Then(Then(ensure_ssh(s), LAMBDA o : ConnSend(o.s, "timing", <<cmd>>)),
       LAMBDA o :
         IF InText(LowerText(o.ret), <<"confirm">>)
         THEN {Out(c.s, c.exc, [command |-> cmd, output |-> o.ret \o c.ret]) :
                 c \in ConnSend(o.s, "timing", << <<"\n">> >>)}
         ELSE {Out(o.s, "none", [command |-> cmd, output |-> o.ret])})

clear_mac_table(s, platform, interface, vlan, dynamic_only) ==
  IF ClearMacCheck(platform, interface, vlan) = "ok"
  THEN ClearMacDispatch(s, ClearMacCmd(platform, interface, vlan, dynamic_only))
  ELSE {Out(s, "ValueError", None)}

\* The command list is rendered from templates/configure_interface_cli.j2.
configure_interface_cli(s, interface) ==
  Then(ensure_ssh(s),
       LAMBDA o : ConnSend(o.s, "config", << <<"configure_interface_cli.j2">> >>))

CloseNetconf(s) ==
  IF s.netconf # "None"
  THEN { Out(Logged(s, [ev |-> "nc_close", ok |-> TRUE]), "none", None),
         Out(Logged(s, [ev |-> "nc_close", ok |-> FALSE]), "SessionCloseError", None) }
  ELSE {Out(s, "none", None)}

CloseSsh(s) ==
  IF s.ssh # "None"
  THEN { Out(Logged(s, [ev |-> "ssh_disconnect", ok |-> TRUE]), "none", None),
         Out(Logged(s, [ev |-> "ssh_disconnect", ok |-> FALSE]), "NetmikoException", None) }
  ELSE {Out(s, "none", None)}

close(s) == Then(CloseNetconf(s), LAMBDA o : CloseSsh(o.s))

(***************************************************************************)
(* State.                                                                  *)
(*   fpc                      position of the caller of a text function    *)
(*   nb_iface, nb_ips         NetBox interface record and its IP records   *)
(*   include_admin            keyword argument of nb_to_intended_lines     *)
(*   platform                 NetBox platform slug of the device           *)
(*   lines                    the compiled lines                           *)
(*   raw, raw2                lines of two replies to "show running-config *)
(*                            interface <name>"                            *)
(*   status                   the interface status record                  *)
(*   result, result2          compare results for raw and raw2             *)
(***************************************************************************)
VARIABLES fpc, nb_iface, nb_ips, include_admin, platform, lines,
          raw, raw2, status, result, result2,
          pc, call, inv, drivers, sess, pre, nclients, ncalls, closeCalls,
          exc, cexc, ret, outcome,
          nmode, nlines, nperm, nout, nout2,
          consumer, stale, reqs, heap, channels,
          lines_main

textVars == <<fpc, nb_iface, nb_ips, include_admin, platform, lines,
              raw, raw2, status, result, result2>>

\* The state of a request and of the device session it owns.
reqVars == <<pc, call, inv, drivers, sess, pre, nclients, ncalls, closeCalls,
             exc, cexc, ret, outcome>>

\* The normalizer applied on its own: policy, input list, a permutation of
\* it, and two outputs.
normVars == <<nmode, nlines, nperm, nout, nout2>>

\* The consumer of a streaming feed: its connection, and the polls issued
\* after it went away.
wsVars == <<consumer, stale>>

\* Concurrent requests, the DeviceClient objects they have constructed, and
\* the connections that are open on the devices.
conVars == <<reqs, heap, channels>>

\* The lines compiled by the legacy compiler of main.py.
mainVars == <<lines_main>>

vars == <<textVars, reqVars, normVars, wsVars, conVars, mainVars>>

SeqsUpTo(S, n) == UNION {[1..k -> S] : k \in 0..n}

(***************************************************************************)
(* Inputs: NetBox records as the REST API returns them.                    *)
(***************************************************************************)
Descriptions == {<<>>, <<"uplink">>}

Modes == {"None", "access", "tagged", "tagged-all"}

UntaggedVlans == {None, [vid |-> 10]}

TaggedVlans == {[vid |-> 20], [vid |-> 30]}

FullIfaces ==
  [description : Descriptions, enabled : BOOLEAN, mode : Modes,
   untagged_vlan : UntaggedVlans, tagged_vlans : SeqsUpTo(TaggedVlans, MaxTagged)]

Without(d, k) == [x \in DOMAIN d \ {k} |-> d[x]]

\* Records with and without the "enabled" key (dict.get's default applies).
Ifaces == FullIfaces \cup {Without(d, "enabled") : d \in {x \in FullIfaces : x.enabled}}

Addresses ==
  { <<"10", ".", "0", ".", "0", ".", "1", "/", "24">>,
    <<"192", ".", "168", ".", "1", ".", "20", "/", "25">>,
    <<"2001:db8::1", "/", "64">> }

IpLists == SeqsUpTo([address : Addresses], MaxIps)

NoResult == [none |-> TRUE]

TextIdle ==
  /\ fpc = "idle"
  /\ nb_iface = [description |-> <<>>]
  /\ nb_ips = <<>>
  /\ include_admin = TRUE
  /\ platform = "ios-xe"
  /\ lines = <<>>
  /\ raw = <<>>
  /\ raw2 = <<>>
  /\ status = [isdict |-> FALSE]
  /\ result = NoResult
  /\ result2 = NoResult

NoCall ==
  [op |-> "none", platform |-> "", interface |-> <<>>, ip_address |-> <<>>,
   vlan |-> <<>>, dynamic_only |-> TRUE]

NoInventory == [device |-> FALSE, slug |-> "", iface |-> FALSE]

NoClient == NewClient("", "")

ReqIdle ==
  /\ pc = "idle"
  /\ call = NoCall
  /\ inv = NoInventory
  /\ drivers = None
  /\ sess = NoClient
  /\ pre = NoClient
  /\ nclients = 0
  /\ ncalls = 0
  /\ closeCalls = 0
  /\ exc = "none"
  /\ cexc = "none"
  /\ ret = None
  /\ outcome = "pending"

NormIdle ==
  /\ nmode = "managed"
  /\ nlines = <<>>
  /\ nperm = <<>>
  /\ nout = <<>>
  /\ nout2 = <<>>

WsIdle ==
  /\ consumer = "none"
  /\ stale = 0

MainIdle == lines_main = <<>>

ConIdle ==
  /\ reqs = <<>>
  /\ heap = <<>>
  /\ channels = {}

(***************************************************************************)
(* The compiler applied to every inventory record.                         *)
(***************************************************************************)
InitCompile ==
  /\ NormIdle
  /\ WsIdle
  /\ MainIdle
  /\ ConIdle
  /\ ReqIdle
  /\ fpc = "compile"
  /\ nb_iface \in Ifaces
  /\ nb_ips \in IpLists
  /\ include_admin \in BOOLEAN
  /\ platform = "ios-xe"
  /\ lines = <<>>
  /\ raw = <<>>
  /\ raw2 = <<>>
  /\ status = [isdict |-> FALSE]
  /\ result = NoResult
  /\ result2 = NoResult

Compile ==
  /\ fpc = "compile"
  /\ lines' = nb_to_intended_lines(platform, nb_iface, nb_ips, include_admin)
  /\ fpc' = "compiled"
  /\ UNCHANGED <<nb_iface, nb_ips, include_admin, platform, raw, raw2, status,
                 result, result2>>
  /\ UNCHANGED reqVars
  /\ UNCHANGED normVars
  /\ UNCHANGED mainVars
  /\ UNCHANGED <<wsVars, conVars>>

\* compare_interface_config on the same inventory record: the compile call of
\* compare (include_admin=False) and the result construction, for a device
\* whose interface block holds an admin-state line.
CompareCompiled ==
  /\ fpc = "compiled"
  /\ raw' = << <<"shutdown">> >>
  /\ result' = CompareResult(platform, nb_iface,
                             nb_to_intended_lines(platform, nb_iface, nb_ips, FALSE),
                             FilterBlock(raw'), status)
  /\ fpc' = "compiled-compared"
  /\ UNCHANGED <<nb_iface, nb_ips, include_admin, platform, lines, raw2, status,
                 result2>>
  /\ UNCHANGED reqVars
  /\ UNCHANGED normVars
  /\ UNCHANGED mainVars
  /\ UNCHANGED <<wsVars, conVars>>

\* The legacy compiler of main.py on the same inventory record.
CompileMain ==
  /\ fpc = "compiled"
  /\ lines_main' = main_nb_to_intended_lines_cisco(nb_iface, nb_ips, include_admin)
  /\ fpc' = "compiled-main"
  /\ UNCHANGED <<nb_iface, nb_ips, include_admin, platform, lines, raw, raw2, status,
                 result, result2>>
  /\ UNCHANGED <<reqVars, normVars, wsVars, conVars>>

NextCompile == Compile \/ CompareCompiled \/ CompileMain

SpecCompile == InitCompile /\ [][NextCompile]_vars


(***************************************************************************)
(* The result construction of compare applied to inventory records,        *)
(* replies of the device and status records; then applied again to a       *)
(* reply that differs from the first by unrelated drift.                   *)
(***************************************************************************)
SotIfaces ==
  { [description |-> <<"uplink">>, enabled |-> TRUE, mode |-> "None"],
    [description |-> <<"uplink">>, enabled |-> FALSE, mode |-> "None"],
    [description |-> <<"uplink">>, mode |-> "None"],
    [description |-> <<>>, enabled |-> TRUE, mode |-> "access",
     untagged_vlan |-> [vid |-> 10]],
    [description |-> <<>>, enabled |-> FALSE, mode |-> "access",
     untagged_vlan |-> [vid |-> 10]] }

RawLines ==
  { <<"description", " ", "uplink">>,
    <<"switchport", " ", "mode", " ", "access">>,
    <<"switchport", " ", "access", " ", "vlan", " ", "10">>,
    <<"interface", " ", "Gi", "0", "/", "1">>,
    <<"Building", " ", "configuration">>,
    <<"shutdown">>,
    <<"!">> }

\* Lines outside the managed whitelist.
DriftLines ==
  { <<"ip", " ", "access-group", " ", "10", " ", "in">>, <<"mtu", " ", "9000">> }

Statuses ==
  { [isdict |-> FALSE],
    [isdict |-> TRUE, d |-> [oper_up |-> "True"]],
    [isdict |-> TRUE, d |-> [admin_up |-> "None", oper_up |-> "None"]],
    [isdict |-> TRUE, d |-> [admin_up |-> "True", oper_up |-> "True"]],
    [isdict |-> TRUE, d |-> [admin_up |-> "False", oper_up |-> "False"]] }

Reverse(s) == [i \in DOMAIN s |-> s[Len(s) + 1 - i]]

\* Every whitespace run of the line widened, and the line indented and padded.
RECURSIVE Widen(_)
Widen(ln) ==
  IF ln = <<>> THEN <<>>
  ELSE IF Head(ln) \in WS THEN <<Head(ln), "\t", " ">> \o Widen(Tail(ln))
  ELSE <<Head(ln)>> \o Widen(Tail(ln))

Drifts(r) ==
  [kind : {"line"}, at : {0, Len(r)}, line : DriftLines]
    \cup [kind : {"order"}]
    \cup [kind : {"duplicate", "whitespace"}, at : DOMAIN r]

Drifted(r, p) ==
  CASE p.kind = "line" ->
         SubSeq(r, 1, p.at) \o <<p.line>> \o SubSeq(r, p.at + 1, Len(r))
    [] p.kind = "order" -> Reverse(r)
    [] p.kind = "duplicate" -> r \o <<r[p.at]>>
    [] p.kind = "whitespace" ->
         [i \in DOMAIN r |->
            IF i = p.at THEN <<" ">> \o Widen(r[i]) \o <<"\t">> ELSE r[i]]

InitCompare ==
  /\ NormIdle
  /\ WsIdle
  /\ MainIdle
  /\ ConIdle
  /\ ReqIdle
  /\ fpc = "compare"
  /\ nb_iface \in SotIfaces
  /\ nb_ips = <<>>
  /\ include_admin = FALSE
  /\ platform = "ios-xe"
  /\ lines = <<>>
  /\ raw \in SeqsUpTo(RawLines, MaxRaw)
  /\ raw2 = <<>>
  /\ status \in Statuses
  /\ result = NoResult
  /\ result2 = NoResult

Compare ==
  /\ fpc = "compare"
  /\ lines' = nb_to_intended_lines(platform, nb_iface, nb_ips, include_admin)
  /\ result' = CompareResult(platform, nb_iface, lines',
                             FilterBlock(raw), status)
  /\ fpc' = "compared"
  /\ UNCHANGED <<nb_iface, nb_ips, include_admin, platform, raw, raw2, status,
                 result2>>
  /\ UNCHANGED reqVars
  /\ UNCHANGED normVars
  /\ UNCHANGED mainVars
  /\ UNCHANGED <<wsVars, conVars>>

CompareDrifted ==
  /\ fpc = "compared"
  /\ \E p \in Drifts(raw) : raw2' = Drifted(raw, p)
  /\ result2' = CompareResult(platform, nb_iface, lines,
                              FilterBlock(raw2'), status)
  /\ fpc' = "drifted"
  /\ UNCHANGED <<nb_iface, nb_ips, include_admin, platform, lines, raw, status,
                 result>>
  /\ UNCHANGED reqVars
  /\ UNCHANGED normVars
  /\ UNCHANGED mainVars
  /\ UNCHANGED <<wsVars, conVars>>

NextCompare == Compare \/ CompareDrifted

SpecCompare == InitCompare /\ [][NextCompare]_vars

(***************************************************************************)
(* The normalizer on its own: applied to a list of lines, applied again to *)
(* its own output, and applied to a permutation of the list.               *)
(***************************************************************************)
MaxNorm == 2

Ip4Mask ==
  <<"ip", " ", "address", " ", "10", ".", "0", ".", "0", ".", "1", " ",
    "255", ".", "255", ".", "255", ".", "0">>

NormLines ==
  { <<"description", " ", "uplink">>,
    <<"description", " ", "uplink", " ">>,
    <<"Description", " ", "\t", "uplink">>,
    <<" ">> \o SubSeq(Ip4Mask, 1, 2) \o <<" ">> \o SubSeq(Ip4Mask, 3, Len(Ip4Mask)),
    <<"no", " ", "switchport">>,
    <<"no", " ", "switchport", " ", "mode">>,
    <<"switchport">>,
    <<"\t", "switchport", " ", "mode", " ", "access">>,
    <<"mtu", " ", "9000">>,
    <<"interface", " ", "Gi", "0", "/", "1">>,
    <<"Building", " ", "configuration">>,
    <<"END">>,
    <<"!">>,
    <<" ", "\t">>,
    <<>> }

ScenarioCLines ==
  << <<"interface", " ", "Gi", "0", "/", "1">>,
     <<"!">>,
     <<"description", " ", "uplink">>,
     <<" ", " ">> \o Ip4Mask \o <<" ", " ">>,
     <<"end">> >>

Perms(l) ==
  {[i \in DOMAIN l |-> l[f[i]]] :
     f \in {g \in [DOMAIN l -> DOMAIN l] : \A i, j \in DOMAIN l : g[i] = g[j] => i = j}}

InitNormalize ==
  /\ TextIdle
  /\ ReqIdle
  /\ WsIdle
  /\ MainIdle
  /\ ConIdle
  /\ nmode \in {"managed", "all"}
  /\ nlines \in SeqsUpTo(NormLines, MaxNorm) \cup {ScenarioCLines}
  /\ nperm = <<>>
  /\ nout = <<>>
  /\ nout2 = <<>>

Normalize ==
  /\ fpc = "idle"
  /\ nout' = normalize_lines(nlines, nmode)
  /\ fpc' = "normalized"
  /\ UNCHANGED <<nb_iface, nb_ips, include_admin, platform, lines, raw, raw2, status,
                 result, result2>>
  /\ UNCHANGED reqVars
  /\ UNCHANGED <<nmode, nlines, nperm, nout2>>
  /\ UNCHANGED mainVars
  /\ UNCHANGED <<wsVars, conVars>>

Renormalize ==
  /\ fpc = "normalized"
  /\ nout2' = normalize_lines(nout, nmode)
  /\ fpc' = "renormalized"
  /\ UNCHANGED <<nb_iface, nb_ips, include_admin, platform, lines, raw, raw2, status,
                 result, result2>>
  /\ UNCHANGED reqVars
  /\ UNCHANGED <<nmode, nlines, nperm, nout>>
  /\ UNCHANGED mainVars
  /\ UNCHANGED <<wsVars, conVars>>

NormalizePermuted ==
  /\ fpc = "normalized"
  /\ nperm' \in Perms(nlines)
  /\ nout2' = normalize_lines(nperm', nmode)
  /\ fpc' = "permuted"
  /\ UNCHANGED <<nb_iface, nb_ips, include_admin, platform, lines, raw, raw2, status,
                 result, result2>>
  /\ UNCHANGED reqVars
  /\ UNCHANGED <<nmode, nlines, nout>>
  /\ UNCHANGED mainVars
  /\ UNCHANGED <<wsVars, conVars>>

NextNormalize == Normalize \/ Renormalize \/ NormalizePermuted

SpecNormalize == InitNormalize /\ [][NextNormalize]_vars

(***************************************************************************)
(* core/platforms.py and the inventory client.  inv is what the inventory  *)
(* holds for the requested device and interface: whether the device is     *)
(* there, its platform slug ("" when the platform is unset) and whether    *)
(* the interface is there.                                                 *)
(***************************************************************************)
PLATFORM_MAP ==
  ("ios-xe" :> [netmiko |-> "cisco_ios", netconf |-> "iosxe"])
    @@ ("ios" :> [netmiko |-> "cisco_ios", netconf |-> "ios"])
    @@ ("nxos" :> [netmiko |-> "cisco_nxos", netconf |-> "nxos"])
    @@ ("junos" :> [netmiko |-> "juniper_junos", netconf |-> "junos"])
    @@ ("eos" :> [netmiko |-> "arista_eos", netconf |-> "eos"])

get_device_platform_slug(i) ==
  IF i.device THEN [exc |-> "none", ret |-> i.slug]
  ELSE [exc |-> "HTTP404 device", ret |-> ""]

get_interface_by_device_and_name(i) ==
  IF i.device /\ i.iface THEN [exc |-> "none", ret |-> None]
  ELSE [exc |-> "HTTP404 interface", ret |-> None]

Drivers(slug, mapping) ==
  [platform |-> slug, netmiko_device_type |-> mapping.netmiko,
   netconf_device_name |-> mapping.netconf]

get_drivers_for_device_default(i) ==
  LET r == get_device_platform_slug(i) IN
    IF r.exc # "none" THEN [exc |-> r.exc, ret |-> None]
    ELSE IF r.ret \in DOMAIN PLATFORM_MAP
    THEN [exc |-> "none", ret |-> Drivers(r.ret, PLATFORM_MAP[r.ret])]
    ELSE [exc |-> "none", ret |-> Drivers(r.ret, PLATFORM_MAP["ios-xe"])]

get_drivers_for_device(i) ==
  LET r == get_device_platform_slug(i) IN
    IF r.exc # "none" THEN [exc |-> r.exc, ret |-> None]
    ELSE IF r.ret = "" THEN [exc |-> "HTTP400 platform unset", ret |-> None]
    ELSE IF r.ret \notin DOMAIN PLATFORM_MAP
    THEN [exc |-> "HTTP400 platform unmapped", ret |-> None]
    ELSE [exc |-> "none", ret |-> Drivers(r.ret, PLATFORM_MAP[r.ret])]

make_device_client(d) ==
  DeviceClient_init(d.netconf_device_name, d.netmiko_device_type)

(***************************************************************************)
(* The request handlers: api/routes/ops.py, api/routes/interface_config.py *)
(* and services/compare_service.py.  All of them have the same shape:      *)
(* inventory lookups, make_device_client, a try body on the client, and    *)
(* client.close() in the finally clause.                                   *)
(***************************************************************************)
OpsRoutes ==
  {"check_macaddress", "clear-dhcp", "show-counters", "show-status-int",
   "show-dhcp-bindings", "clear-dhcp-binding", "clear-counters", "shutdown",
   "no-shutdown", "restart-interface", "mac-table/clear"}

ServiceOps == {"compare-config", "apply-merge"}

Ops == OpsRoutes \cup ServiceOps \cup {"configure-interface"}

\* The steps of the handler that precede make_device_client.
BeforeConstruct(c, i) ==
  CASE c.op = "clear-dhcp" ->
         IF Truthy(c.ip_address) THEN get_drivers_for_device(i)
         ELSE [exc |-> "HTTP400 ip_address", ret |-> None]
    [] c.op = "configure-interface" ->
         IF get_interface_by_device_and_name(i).exc = "none"
         THEN get_drivers_for_device(i)
         ELSE get_interface_by_device_and_name(i)
    [] c.op \in ServiceOps ->
         IF get_drivers_for_device(i).exc = "none"
              /\ get_interface_by_device_and_name(i).exc # "none"
         THEN get_interface_by_device_and_name(i)
         ELSE get_drivers_for_device(i)
    [] OTHER -> get_drivers_for_device(i)

\* Variant: the compiled lines pushed as they are.
ApplyLines_plain(intended) == intended

RECURSIVE ApplyLines(_)
ApplyLines(intended) ==
  IF intended = <<>> THEN <<>>
  ELSE (IF StartsWith(Lower(Head(intended)), <<"ip", " ", "address", " ">>)
        THEN << <<"no", " ", "ip", " ", "address">>, Head(intended) >>
        ELSE << Head(intended) >>) \o ApplyLines(Tail(intended))

ApplyCmds(interface, intended) ==
  << <<"interface", " ">> \o interface >> \o ApplyLines(intended)

\* The try body of the handler, on client s.
Body(c, s, d, intended) ==
  CASE c.op = "compare-config" ->
         Then(get_running_interface_block(s, c.interface),
              LAMBDA o : {Out(q.s, q.exc, [running |-> o.ret, status |-> q.ret]) :
                            q \in get_interface_status_textfsm(o.s, c.interface)})
    [] c.op = "apply-merge" ->
         Then(send_config_lines(s, ApplyCmds(c.interface, intended)),
              LAMBDA o : {Out(o.s, "none",
                              [commands |-> ApplyCmds(c.interface, intended),
                               output |-> o.ret])})
    [] c.op = "configure-interface" -> configure_interface_cli(s, c.interface)
    [] c.op = "check_macaddress" -> get_mac_table(s, c.interface)
    [] c.op = "clear-dhcp" -> clear_dhcp(s, c.ip_address)
    [] c.op = "show-counters" -> show_counters(s, c.interface)
    [] c.op = "show-status-int" -> get_interface_state(s, c.interface)
    [] c.op = "show-dhcp-bindings" -> show_dhcp_bindings(s)
    [] c.op = "clear-dhcp-binding" -> clear_dhcp_binding(s, c.ip_address)
    [] c.op = "clear-counters" -> clear_counters(s, c.interface)
    [] c.op = "shutdown" -> shutdown(s, c.interface)
    [] c.op = "no-shutdown" -> no_shutdown(s, c.interface)
    [] c.op = "restart-interface" -> restart(s, c.interface)
    [] c.op = "mac-table/clear" ->
         clear_mac_table(s, d.platform, c.interface, c.vlan, c.dynamic_only)

\* The except clause of the handler: what the caller sees for exception e.
MapExc(o, e) ==
  IF e = "none" THEN "ok"
  ELSE IF o \in ServiceOps \cup {"show-status-int", "clear-counters"} THEN e
  ELSE IF o = "mac-table/clear"
  THEN (IF e = "ValueError" THEN "HTTP400 ValueError" ELSE e)
  ELSE "HTTP500"

\* An exception raised by close() in the finally clause replaces the pending one.
Response(o, e, ce) == IF ce # "none" THEN ce ELSE MapExc(o, e)

StatusOf(x) == IF x = None THEN [isdict |-> FALSE] ELSE [isdict |-> TRUE, d |-> x]

(***************************************************************************)
(* One request through a handler.                                          *)
(***************************************************************************)
Slugs == {"", "ios-xe", "ios", "nxos", "junos", "eos", "fortios"}

Inventories ==
  {i \in [device : BOOLEAN, slug : Slugs, iface : BOOLEAN] :
     ~i.device => (i.slug = "" /\ ~i.iface)}

Address5 == <<"10", ".", "0", ".", "0", ".", "5">>

ShortName == <<"Gi", "0", "/", "1">>

LongName == <<"GigabitEthernet", "0", "/", "1">>

Calls(o) ==
  CASE o = "mac-table/clear" ->
         [op : {o}, platform : {""}, interface : {<<>>, ShortName}, ip_address : {<<>>},
          vlan : {None, <<10>>}, dynamic_only : BOOLEAN]
    [] o \in {"shutdown", "no-shutdown", "restart-interface"} ->
         [op : {o}, platform : {""}, interface : {ShortName, LongName},
          ip_address : {<<>>}, vlan : {None}, dynamic_only : {TRUE}]
    [] o \in {"clear-dhcp", "clear-dhcp-binding"} ->
         [op : {o}, platform : {""}, interface : {LongName},
          ip_address : {<<>>, Address5}, vlan : {None}, dynamic_only : {TRUE}]
    [] OTHER ->
         [op : {o}, platform : {""}, interface : {LongName}, ip_address : {<<>>},
          vlan : {None}, dynamic_only : {TRUE}]

\* The inventory records a request reads; only compare and apply read them.
SotOf(o) ==
  IF o \in ServiceOps
  THEN SotIfaces \X {<<>>, <<[address |-> <<"10", ".", "0", ".", "0", ".", "1", "/", "24">>]>>}
  ELSE {<<[description |-> <<>>], <<>>>>}

Init ==
  /\ NormIdle
  /\ WsIdle
  /\ MainIdle
  /\ ConIdle
  /\ TextIdle
  /\ ReqIdle

Request ==
  /\ pc = "idle"
  /\ \E o \in Ops : \E c \in Calls(o) : \E sot \in SotOf(o) :
       /\ call' = c
       /\ nb_iface' = sot[1]
       /\ nb_ips' = sot[2]
       /\ include_admin' = (o # "compare-config")
  /\ inv' \in Inventories
  /\ pc' = "lookup"
  /\ UNCHANGED <<fpc, platform, lines, raw, raw2, status, result, result2>>
  /\ UNCHANGED <<drivers, sess, pre, nclients, ncalls, closeCalls, exc, cexc, ret,
                 outcome>>
  /\ UNCHANGED normVars
  /\ UNCHANGED mainVars
  /\ UNCHANGED <<wsVars, conVars>>

\* The inventory lookups failed: the handler propagates the error.
Reject ==
  /\ pc = "lookup"
  /\ BeforeConstruct(call, inv).exc # "none"
  /\ outcome' = BeforeConstruct(call, inv).exc
  /\ pc' = "done"
  /\ UNCHANGED textVars
  /\ UNCHANGED <<call, inv, drivers, sess, pre, nclients, ncalls, closeCalls, exc,
                 cexc, ret>>
  /\ UNCHANGED normVars
  /\ UNCHANGED mainVars
  /\ UNCHANGED <<wsVars, conVars>>

\* The inventory lookups succeeded: make_device_client.
Construct ==
  /\ pc = "lookup"
  /\ BeforeConstruct(call, inv).exc = "none"
  /\ drivers' = BeforeConstruct(call, inv).ret
  /\ platform' = drivers'.platform
  /\ lines' = IF call.op \in ServiceOps
              THEN nb_to_intended_lines(platform', nb_iface, nb_ips, include_admin)
              ELSE lines
  /\ \E o \in make_device_client(drivers') : sess' = o.s
  /\ pre' = sess'
  /\ nclients' = nclients + 1
  /\ pc' = "try"
  /\ UNCHANGED <<fpc, nb_iface, nb_ips, include_admin, raw, raw2, status, result,
                 result2>>
  /\ UNCHANGED <<call, inv, ncalls, closeCalls, exc, cexc, ret, outcome>>
  /\ UNCHANGED normVars
  /\ UNCHANGED mainVars
  /\ UNCHANGED <<wsVars, conVars>>

Try ==
  /\ pc = "try"
  /\ \E o \in Body(call, sess, drivers, lines) :
       /\ sess' = o.s
       /\ exc' = o.exc
       /\ ret' = o.ret
  /\ pre' = sess
  /\ ncalls' = ncalls + 1
  /\ pc' = "finally"
  /\ UNCHANGED textVars
  /\ UNCHANGED <<call, inv, drivers, nclients, closeCalls, cexc, outcome>>
  /\ UNCHANGED normVars
  /\ UNCHANGED mainVars
  /\ UNCHANGED <<wsVars, conVars>>

\* A handler without the finally clause: close() only when the body returned.
Finally_on_success ==
  /\ pc = "finally"
  /\ \E o \in (IF exc = "none" THEN close(sess) ELSE {Out(sess, "none", None)}) :
       /\ sess' = o.s
       /\ cexc' = o.exc
  /\ pre' = sess
  /\ closeCalls' = IF exc = "none" THEN closeCalls + 1 ELSE closeCalls
  /\ outcome' = Response(call.op, exc, cexc')
  /\ result' = result
  /\ pc' = "done"
  /\ UNCHANGED <<fpc, nb_iface, nb_ips, include_admin, platform, lines, raw, raw2,
                 status, result2>>
  /\ UNCHANGED <<call, inv, drivers, nclients, ncalls, exc, ret>>
  /\ UNCHANGED normVars
  /\ UNCHANGED mainVars
  /\ UNCHANGED <<wsVars, conVars>>

Finally ==
  /\ pc = "finally"
  /\ \E o \in close(sess) :
       /\ sess' = o.s
       /\ cexc' = o.exc
  /\ pre' = sess
  /\ closeCalls' = closeCalls + 1
  /\ outcome' = Response(call.op, exc, cexc')
  /\ result' = IF call.op = "compare-config" /\ outcome' = "ok"
               THEN CompareResult(platform, nb_iface, lines, ret.running,
                                  StatusOf(ret.status))
               ELSE result
  /\ pc' = "done"
  /\ UNCHANGED <<fpc, nb_iface, nb_ips, include_admin, platform, lines, raw, raw2,
                 status, result2>>
  /\ UNCHANGED <<call, inv, drivers, nclients, ncalls, exc, ret>>
  /\ UNCHANGED normVars
  /\ UNCHANGED mainVars
  /\ UNCHANGED <<wsVars, conVars>>

Next == Request \/ Reject \/ Construct \/ Try \/ Finally

Spec == Init /\ [][Next]_vars

(***************************************************************************)
(* A client used directly: any sequence of method calls and close() on one *)
(* DeviceClient.                                                           *)
(***************************************************************************)
\* Method calls on one client, close() included.
MaxCalls == 3

ClearMacArg(p, i, v, d) ==
  [op |-> "clear_mac_table", platform |-> p, interface |-> i, ip_address |-> <<>>,
   vlan |-> v, dynamic_only |-> d]

\* Valid calls of each command family, and calls of each invalid kind.
ClearMacArgs ==
  { ClearMacArg("IOS-XE", ShortName, None, TRUE),
    ClearMacArg(" junos ", <<>>, <<10>>, FALSE),
    ClearMacArg("ios-xe", ShortName, <<10>>, TRUE),
    ClearMacArg("fortios", ShortName, None, TRUE) }

InitSession ==
  /\ NormIdle
  /\ WsIdle
  /\ MainIdle
  /\ ConIdle
  /\ TextIdle
  /\ pc = "open"
  /\ call = NoCall
  /\ inv = NoInventory
  /\ drivers = Drivers("ios-xe", PLATFORM_MAP["ios-xe"])
  /\ sess \in {o.s : o \in make_device_client(drivers)}
  /\ pre = sess
  /\ nclients = 1
  /\ ncalls = 0
  /\ closeCalls = 0
  /\ exc = "none"
  /\ cexc = "none"
  /\ ret = None
  /\ outcome = "pending"

Returned(m, outs) ==
  /\ \E o \in outs :
       /\ sess' = o.s
       /\ exc' = o.exc
       /\ ret' = o.ret
  /\ pre' = sess
  /\ ncalls' = ncalls + 1
  /\ UNCHANGED textVars
  /\ UNCHANGED <<pc, inv, drivers, nclients, closeCalls, cexc, outcome>>
  /\ UNCHANGED normVars
  /\ UNCHANGED mainVars
  /\ UNCHANGED <<wsVars, conVars>>

CallClearMacTable ==
  /\ pc = "open"
  /\ ncalls + closeCalls < MaxCalls
  /\ \E c \in ClearMacArgs :
       /\ call' = c
       /\ Returned("clear_mac_table",
                   clear_mac_table(sess, c.platform, c.interface, c.vlan, c.dynamic_only))

CallSendCommand ==
  /\ pc = "open"
  /\ ncalls + closeCalls < MaxCalls
  /\ call' = [NoCall EXCEPT !.op = "send_command"]
  /\ Returned("send_command", send_command(sess, <<"show", " ", "version">>))

NetconfMethod(m, s) ==
  CASE m = "clear_dhcp" -> clear_dhcp(s, Address5)
    [] m = "restart" -> restart(s, LongName)

CallNetconfMethod ==
  /\ pc = "open"
  /\ ncalls + closeCalls < MaxCalls
  /\ \E m \in {"clear_dhcp", "restart"} :
       /\ call' = [NoCall EXCEPT !.op = m, !.interface = LongName,
                                 !.ip_address = Address5]
       /\ Returned(m, NetconfMethod(m, sess))

CallGetMacTable ==
  /\ pc = "open"
  /\ ncalls + closeCalls < MaxCalls
  /\ call' = [NoCall EXCEPT !.op = "get_mac_table", !.interface = LongName]
  /\ Returned("get_mac_table", get_mac_table(sess, LongName))

Close ==
  /\ pc = "open"
  /\ ncalls + closeCalls < MaxCalls
  /\ \E o \in close(sess) :
       /\ sess' = o.s
       /\ cexc' = o.exc
  /\ pre' = sess
  /\ call' = [NoCall EXCEPT !.op = "close"]
  /\ closeCalls' = closeCalls + 1
  /\ UNCHANGED textVars
  /\ UNCHANGED <<pc, inv, drivers, nclients, ncalls, exc, ret, outcome>>
  /\ UNCHANGED normVars
  /\ UNCHANGED mainVars
  /\ UNCHANGED <<wsVars, conVars>>

NextSession ==
  \/ CallClearMacTable
  \/ CallSendCommand
  \/ CallNetconfMethod
  \/ CallGetMacTable
  \/ Close

SpecSession == InitSession /\ [][NextSession]_vars

(***************************************************************************)
(* A streaming counters feed: ws_counters / ws_live_counters serving one   *)
(* consumer.  The consumer may go away at any moment; the handler notices  *)
(* it only when ws.send_json raises.                                       *)
(***************************************************************************)
MaxPolls == 3

WsRoutes == {"ws_counters", "ws_live_counters"}

\* The query parameters of the connection: present (TRUE) or missing.
WsParams ==
  { [host |-> TRUE, username |-> TRUE, password |-> TRUE, interface |-> TRUE],
    [host |-> TRUE, username |-> FALSE, password |-> FALSE, interface |-> TRUE],
    [host |-> FALSE, username |-> TRUE, password |-> TRUE, interface |-> TRUE],
    [host |-> TRUE, username |-> TRUE, password |-> TRUE, interface |-> FALSE] }

ParamsMissing(route, q) ==
  IF route = "ws_counters" THEN ~q.host \/ ~q.interface
  ELSE ~(q.host /\ q.username /\ q.password /\ q.interface)

\* ws.send_json: what it raises, "none" when the consumer is connected.
send_json(c) == IF c = "connected" THEN {"none"} ELSE {"WebSocketDisconnect", "RuntimeError"}

\* Where an exception raised in the try block leaves the handler.
Handler(e) ==
  CASE e = "none" -> "sleep"
    [] e \in {"WebSocketDisconnect", "CancelledError"} -> "finally"
    [] OTHER -> "except"

InitStream ==
  /\ TextIdle
  /\ NormIdle
  /\ ReqIdle
  /\ WsIdle
  /\ MainIdle
  /\ ConIdle

\* ws.accept() and the reading of the query parameters.
Accept ==
  /\ pc = "idle"
  /\ \E r \in WsRoutes : \E q \in WsParams : call' = [op |-> r, params |-> q]
  /\ consumer' = "connected"
  /\ pc' = "accepted"
  /\ UNCHANGED textVars
  /\ UNCHANGED <<inv, drivers, sess, pre, nclients, ncalls, closeCalls, exc, cexc, ret,
                 outcome>>
  /\ UNCHANGED normVars
  /\ UNCHANGED mainVars
  /\ UNCHANGED <<stale, conVars>>

\* A parameter is missing: the error is sent and the socket closed.
RejectParams ==
  /\ pc = "accepted"
  /\ ParamsMissing(call.op, call.params)
  /\ \E e \in send_json(consumer) :
       /\ exc' = e
       /\ outcome' = IF e = "none" THEN "Missing host or interface" ELSE e
  /\ consumer' = IF consumer = "connected" THEN "closed" ELSE consumer
  /\ pc' = "done"
  /\ UNCHANGED textVars
  /\ UNCHANGED <<call, inv, drivers, sess, pre, nclients, ncalls, closeCalls, cexc, ret>>
  /\ UNCHANGED normVars
  /\ UNCHANGED mainVars
  /\ UNCHANGED <<stale, conVars>>

\* client = DeviceClient(host, user, pwd), before the try block.
Open ==
  /\ pc = "accepted"
  /\ ~ParamsMissing(call.op, call.params)
  /\ \E o \in DeviceClient_init("iosxe", "cisco_ios") : sess' = o.s
  /\ pre' = sess'
  /\ nclients' = nclients + 1
  /\ pc' = "ensure"
  /\ UNCHANGED textVars
  /\ UNCHANGED <<call, inv, drivers, ncalls, closeCalls, exc, cexc, ret, outcome>>
  /\ UNCHANGED normVars
  /\ UNCHANGED mainVars
  /\ UNCHANGED <<wsVars, conVars>>

\* client._ensure_ssh(), the first statement of the try block.
EnsureSsh ==
  /\ pc = "ensure"
  /\ \E o \in ensure_ssh(sess) :
       /\ sess' = o.s
       /\ exc' = o.exc
       /\ pc' = IF o.exc = "none" THEN "poll" ELSE "except"
  /\ pre' = sess
  /\ UNCHANGED textVars
  /\ UNCHANGED <<call, inv, drivers, nclients, ncalls, closeCalls, cexc, ret, outcome>>
  /\ UNCHANGED normVars
  /\ UNCHANGED mainVars
  /\ UNCHANGED <<wsVars, conVars>>

\* counters = client.show_counters(interface)
Poll ==
  /\ pc = "poll"
  /\ ncalls < MaxPolls
  /\ \E o \in show_counters(sess, LongName) :
       /\ sess' = o.s
       /\ exc' = o.exc
       /\ ret' = o.ret
       /\ pc' = IF o.exc = "none" THEN "send" ELSE "except"
  /\ pre' = sess
  /\ ncalls' = ncalls + 1
  /\ stale' = IF consumer = "connected" THEN stale ELSE stale + 1
  /\ UNCHANGED textVars
  /\ UNCHANGED <<call, inv, drivers, nclients, closeCalls, cexc, outcome>>
  /\ UNCHANGED normVars
  /\ UNCHANGED mainVars
  /\ UNCHANGED <<consumer, conVars>>

\* The first entry is decoded (a missing key or a non-number raises) and sent;
\* an empty table is reported as "No data".
Send ==
  /\ pc = "send"
  /\ \E d \in (IF ret = <<>> THEN {"none"} ELSE {"none", "KeyError"}) :
       \E e \in (IF d = "none" THEN send_json(consumer) ELSE {d}) :
         /\ exc' = e
         /\ pc' = Handler(e)
  /\ UNCHANGED textVars
  /\ UNCHANGED <<call, inv, drivers, sess, pre, nclients, ncalls, closeCalls, cexc, ret,
                 outcome>>
  /\ UNCHANGED normVars
  /\ UNCHANGED mainVars
  /\ UNCHANGED <<wsVars, conVars>>

\* asyncio.sleep(5) returns.
Wake ==
  /\ pc = "sleep"
  /\ pc' = "poll"
  /\ UNCHANGED textVars
  /\ UNCHANGED <<call, inv, drivers, sess, pre, nclients, ncalls, closeCalls, exc, cexc,
                 ret, outcome>>
  /\ UNCHANGED normVars
  /\ UNCHANGED mainVars
  /\ UNCHANGED <<wsVars, conVars>>

\* The task is cancelled while it is suspended in asyncio.sleep(5).
Cancelled ==
  /\ pc = "sleep"
  /\ exc' = "CancelledError"
  /\ pc' = Handler(exc')
  /\ UNCHANGED textVars
  /\ UNCHANGED <<call, inv, drivers, sess, pre, nclients, ncalls, closeCalls, cexc, ret,
                 outcome>>
  /\ UNCHANGED normVars
  /\ UNCHANGED mainVars
  /\ UNCHANGED <<wsVars, conVars>>

\* except Exception: the error is sent to the consumer; a failure of that
\* send replaces the exception.
Except ==
  /\ pc = "except"
  /\ \E e \in send_json(consumer) : exc' = IF e = "none" THEN exc ELSE e
  /\ pc' = "finally"
  /\ UNCHANGED textVars
  /\ UNCHANGED <<call, inv, drivers, sess, pre, nclients, ncalls, closeCalls, cexc, ret,
                 outcome>>
  /\ UNCHANGED normVars
  /\ UNCHANGED mainVars
  /\ UNCHANGED <<wsVars, conVars>>

\* finally: client.close()
StreamFinally ==
  /\ pc = "finally"
  /\ \E o \in close(sess) :
       /\ sess' = o.s
       /\ cexc' = o.exc
  /\ pre' = sess
  /\ closeCalls' = closeCalls + 1
  /\ outcome' = IF cexc' # "none" THEN cexc' ELSE exc
  /\ pc' = "done"
  /\ UNCHANGED textVars
  /\ UNCHANGED <<call, inv, drivers, nclients, ncalls, exc, ret>>
  /\ UNCHANGED normVars
  /\ UNCHANGED mainVars
  /\ UNCHANGED <<wsVars, conVars>>

\* The consumer goes away.
Disconnect ==
  /\ consumer = "connected"
  /\ pc # "done"
  /\ consumer' = "disconnected"
  /\ UNCHANGED textVars
  /\ UNCHANGED reqVars
  /\ UNCHANGED normVars
  /\ UNCHANGED mainVars
  /\ UNCHANGED <<stale, conVars>>

NextStream ==
  \/ Accept
  \/ RejectParams
  \/ Open
  \/ EnsureSsh
  \/ Poll
  \/ Send
  \/ Wake
  \/ Cancelled
  \/ Except
  \/ StreamFinally
  \/ Disconnect

SpecStream == InitStream /\ [][NextStream]_vars

(***************************************************************************)
(* Concurrent requests.  Every handler keeps its DeviceClient in a local   *)
(* variable; heap holds the objects in the order they were constructed and *)
(* channels the connections that are open on the devices, each one owned   *)
(* by the object that opened it.                                           *)
(***************************************************************************)
MaxReqs == 2

Reqs == 1..MaxReqs

\* The requests that may arrive: three kinds against one device, and one
\* against another device.
ConRequests ==
  { [op |-> "compare-config", host |-> "sw1"],
    [op |-> "apply-merge", host |-> "sw1"],
    [op |-> "clear-dhcp", host |-> "sw1"],
    [op |-> "apply-merge", host |-> "sw2"] }

NoReq == [pc |-> "idle", op |-> "none", host |-> "none", client |-> 0]

ConCall(o) == [NoCall EXCEPT !.op = o, !.interface = LongName, !.ip_address = Address5]

Quiet(s) == [s EXCEPT !.log = <<>>]

Did(s, name) == \E k \in DOMAIN s.log : s.log[k].ev = name /\ s.log[k].ok

ChannelsOf(i, s, nc, ssh) ==
  (IF Did(s, nc) THEN {[client |-> i, kind |-> "netconf"]} ELSE {})
    \cup (IF Did(s, ssh) THEN {[client |-> i, kind |-> "ssh"]} ELSE {})

\* The connections that the calls logged in s opened for object i.
Opened(i, s) == ChannelsOf(i, s, "nc_connect", "ssh_connect")

\* The connections of object i that the calls logged in s closed.
Released(i, s) == ChannelsOf(i, s, "nc_close", "ssh_disconnect")

NewObject(r, s) == [maker |-> r, host |-> reqs[r].host, s |-> Quiet(s), users |-> {}, closers |-> {}]

InitConcurrent ==
  /\ TextIdle
  /\ NormIdle
  /\ ReqIdle
  /\ WsIdle
  /\ MainIdle
  /\ reqs = [r \in Reqs |-> NoReq]
  /\ heap = <<>>
  /\ channels = {}

\* A request arrives.
ConRequest ==
  /\ \E r \in Reqs :
       /\ reqs[r].pc = "idle"
       /\ \E q \in ConRequests :
            reqs' = [reqs EXCEPT ![r] = [pc |-> "lookup", op |-> q.op, host |-> q.host,
                                         client |-> 0]]
  /\ UNCHANGED <<heap, channels>>
  /\ UNCHANGED <<textVars, reqVars, normVars, wsVars, mainVars>>

\* Variant: one client per host, kept and handed to every request for it.
ConConstruct_cached ==
  /\ \E r \in Reqs :
       /\ reqs[r].pc = "lookup"
       /\ IF \E i \in DOMAIN heap : heap[i].host = reqs[r].host
          THEN /\ reqs' = [reqs EXCEPT ![r].pc = "try",
                                       ![r].client =
                                          CHOOSE i \in DOMAIN heap : heap[i].host = reqs[r].host]
               /\ UNCHANGED <<heap, channels>>
          ELSE \E o \in make_device_client(Drivers("ios-xe", PLATFORM_MAP["ios-xe"])) :
                 /\ heap' = Append(heap, NewObject(r, o.s))
                 /\ channels' = channels \cup Opened(Len(heap) + 1, o.s)
                 /\ reqs' = [reqs EXCEPT ![r].pc = "try", ![r].client = Len(heap) + 1]
  /\ UNCHANGED <<textVars, reqVars, normVars, wsVars, mainVars>>

\* client = make_device_client(...): a new object for this request.
ConConstruct ==
  /\ \E r \in Reqs :
       /\ reqs[r].pc = "lookup"
       /\ \E o \in make_device_client(Drivers("ios-xe", PLATFORM_MAP["ios-xe"])) :
            /\ heap' = Append(heap, NewObject(r, o.s))
            /\ channels' = channels \cup Opened(Len(heap) + 1, o.s)
            /\ reqs' = [reqs EXCEPT ![r].pc = "try", ![r].client = Len(heap) + 1]
  /\ UNCHANGED <<textVars, reqVars, normVars, wsVars, mainVars>>

\* The try body, on the object the local variable refers to.
ConTry ==
  /\ \E r \in Reqs :
       /\ reqs[r].pc = "try"
       /\ LET i == reqs[r].client IN
            \E o \in Body(ConCall(reqs[r].op), heap[i].s,
                          Drivers("ios-xe", PLATFORM_MAP["ios-xe"]), <<>>) :
              /\ heap' = [heap EXCEPT ![i].s = Quiet(o.s), ![i].users = @ \cup {r}]
              /\ channels' = channels \cup Opened(i, o.s)
       /\ reqs' = [reqs EXCEPT ![r].pc = "finally"]
  /\ UNCHANGED <<textVars, reqVars, normVars, wsVars, mainVars>>

\* finally: client.close()
ConFinally ==
  /\ \E r \in Reqs :
       /\ reqs[r].pc = "finally"
       /\ LET i == reqs[r].client IN
            \E o \in close(heap[i].s) :
              /\ heap' = [heap EXCEPT ![i].s = Quiet(o.s), ![i].closers = @ \cup {r}]
              /\ channels' = channels \ Released(i, o.s)
       /\ reqs' = [reqs EXCEPT ![r].pc = "done"]
  /\ UNCHANGED <<textVars, reqVars, normVars, wsVars, mainVars>>

NextConcurrent == ConRequest \/ ConConstruct \/ ConTry \/ ConFinally

SpecConcurrent == InitConcurrent /\ [][NextConcurrent]_vars

(***************************************************************************)
(* Properties.                                                             *)
(***************************************************************************)
IPv4Assigned == \E i \in DOMAIN nb_ips : Contains(nb_ips[i].address, <<".">>)

IsIpLine(ln) == StartsWith(ln, <<"ip", " ", "address", " ">>)

ScenarioA ==
  /\ Get(nb_iface, "description", <<>>) = <<"uplink">>
  /\ nb_ips = << [address |-> <<"10", ".", "0", ".", "0", ".", "1", "/", "24">>] >>
  /\ include_admin = FALSE

IpLineA ==
  <<"ip", " ", "address", " ", "10", ".", "0", ".", "0", ".", "1", " ",
    "255", ".", "255", ".", "255", ".", "0">>

\* C9: for every desired state with an IPv4 address assigned, whatever its
\* mode and VLANs, the compiled lines contain no line beginning with
\* "switchport" and exactly one "ip address <addr> <netmask>" line.
C9_CompilerExclusivity ==
  (fpc = "compiled" /\ IPv4Assigned) =>
    /\ \A i \in DOMAIN lines : Head(lines[i]) # "switchport"
    /\ Cardinality({i \in DOMAIN lines : IsIpLine(lines[i])}) = 1
    /\ nb_ips[1].address = <<"10", ".", "0", ".", "0", ".", "1", "/", "24">>
         => lines[Len(lines)] = IpLineA

C9_Witness ==
  /\ fpc = "compiled"
  /\ IPv4Assigned
  /\ nb_iface.mode = "tagged"
  /\ nb_iface.untagged_vlan = [vid |-> 10]
  /\ Len(nb_iface.tagged_vlans) = 2
  /\ Len(nb_ips) = 2
  /\ lines[Len(lines)] = IpLineA

\* C10 as stated: with a non-empty description the first compiled line is
\* "description <text>", and description "uplink" with 10.0.0.1/24 and
\* include_admin_state=false compiles to
\* ["description uplink", "no switchport", "ip address 10.0.0.1 255.255.255.0"].
C10_DescriptionFirst ==
  (fpc = "compiled" /\ Truthy(Get(nb_iface, "description", <<>>))) =>
    /\ lines[1] = <<"description", " ">> \o nb_iface.description
    /\ ScenarioA =>
         lines = << <<"description", " ", "uplink">>, <<"no", " ", "switchport">>,
                    IpLineA >>

\* C10 amended: with a non-empty description, "description <text>" is the
\* first compiled line when no IPv4 address is assigned and the second line,
\* directly after "no switchport", when one is; description "uplink" with
\* 10.0.0.1/24 and include_admin_state=false compiles to
\* ["no switchport", "description uplink", "ip address 10.0.0.1 255.255.255.0"].
C10_DescriptionPosition ==
  (fpc = "compiled" /\ Truthy(Get(nb_iface, "description", <<>>))) =>
    /\ ~IPv4Assigned => lines[1] = <<"description", " ">> \o nb_iface.description
    /\ IPv4Assigned =>
         /\ lines[1] = <<"no", " ", "switchport">>
         /\ lines[2] = <<"description", " ">> \o nb_iface.description
    /\ ScenarioA =>
         lines = << <<"no", " ", "switchport">>, <<"description", " ", "uplink">>,
                    IpLineA >>

C10_Witness == fpc = "compiled" /\ ScenarioA /\ Len(lines) = 3


\* The managed statements of a list of lines, as a set.
ManagedSet(ls) ==
  {CleanLine(ls[i]) : i \in {j \in DOMAIN ls :
      CleanLine(ls[j]) # <<>> /\ ~NoiseLine(Lower(CleanLine(ls[j])))
        /\ ManagedLine(Lower(CleanLine(ls[j])))}}

Compared == fpc \in {"compared", "drifted"}

DesiredAdmin == PyBool(Get(nb_iface, "enabled", TRUE))

DeviceAdminKnown ==
  /\ status.isdict
  /\ "admin_up" \in DOMAIN status.d
  /\ status.d.admin_up \in {"True", "False"}

\* C6: in every compare result, in_sync = config.in_sync AND state.in_sync,
\* config.in_sync holds exactly when the managed statements of the running
\* block equal those of the compiled intent, and equal configuration with
\* equal admin state gives in_sync = true.
C6_OverallInSync ==
  Compared =>
    /\ result.in_sync = (result.config.in_sync /\ result.state.in_sync)
    /\ result.config.in_sync = (ManagedSet(raw) = ManagedSet(lines))
    /\ result.config.in_sync =
         (result.config.running_lines = result.config.intended_lines)
    /\ (ManagedSet(raw) = ManagedSet(lines) /\ DeviceAdminKnown
          /\ status.d.admin_up = DesiredAdmin) => result.in_sync

C6_Witness ==
  /\ Compared
  /\ DeviceAdminKnown
  /\ status.d.admin_up = DesiredAdmin
  /\ Len(result.config.running_lines) = 2
  /\ Len(raw) = 2
  /\ result.config.in_sync
  /\ result.in_sync

\* C7: state.in_sync holds if and only if the device admin state is unknown
\* or equals the desired one; a known admin state that differs from the
\* desired one makes in_sync false even when the configuration lines agree.
C7_StateInSync ==
  Compared =>
    /\ result.state.in_sync =
         (~DeviceAdminKnown \/ status.d.admin_up = DesiredAdmin)
    /\ (DeviceAdminKnown /\ status.d.admin_up # DesiredAdmin) => ~result.in_sync

C7_Witness ==
  /\ Compared
  /\ DeviceAdminKnown
  /\ status.d.admin_up # DesiredAdmin
  /\ result.config.in_sync
  /\ ~result.state.in_sync
  /\ ~result.in_sync

\* C8: two running blocks that differ only by an unmanaged line, by line
\* order, by a duplicated line or by whitespace runs give the same
\* config.in_sync, the same running_lines and the same diff.
C8_DriftInvariance ==
  fpc = "drifted" =>
    /\ result2.config.in_sync = result.config.in_sync
    /\ result2.config.running_lines = result.config.running_lines
    /\ result2.config.diff = result.config.diff

C8_Witness ==
  /\ fpc = "drifted"
  /\ Len(raw2) = 3
  /\ raw2[1] = <<"mtu", " ", "9000">>
  /\ Len(result2.config.running_lines) = 2
  /\ result2.config.in_sync
  /\ result2.config.diff = result.config.diff

(***************************************************************************)
(* The request handlers and the device session.                            *)
(***************************************************************************)
Handled == pc = "done" /\ call.op \in Ops

\* C1: every handler that constructed a DeviceClient has called close() on it
\* exactly once when it returns or propagates an exception, whatever the try
\* body did; close() is never called before the body has run.
C1_ClosedExactlyOnce ==
  /\ closeCalls <= nclients
  /\ (pc \in {"lookup", "try", "finally"}) => closeCalls = 0
  /\ (Handled /\ nclients > 0) => (nclients = 1 /\ closeCalls = 1)

\* A validation error of the body, after which the client was closed.
C1_Witness ==
  /\ Handled
  /\ call.op = "mac-table/clear"
  /\ exc = "ValueError"
  /\ closeCalls = 1

EventsSince(before, after) ==
  {after.log[i].ev : i \in (Len(before.log) + 1)..Len(after.log)}

\* C2: when close() runs on a client whose two channels are both open, the
\* SSH channel is disconnected and close() raises nothing, even when the
\* NETCONF close_session fails.
C2_CloseIndependent ==
  (Handled /\ closeCalls = 1 /\ pre.netconf # "None" /\ pre.ssh # "None") =>
    /\ "ssh_disconnect" \in EventsSince(pre, sess)
    /\ cexc = "none"

SupportedFamilies == {"ios", "ios-xe", "nxos", "eos", "junos"}

BothScopes == Truthy(call.interface) /\ call.vlan # None

InvalidClearMac ==
  /\ call.op = "clear_mac_table"
  /\ BothScopes \/ NormPlatform(call.platform) \notin SupportedFamilies

\* C3: a clear_mac_table call with both interface and vlan set, or with a
\* platform outside the supported families, raises the validation error
\* and leaves the client as it was: no SSH connection is made and no
\* command is sent.
C3_ClearMacValidation ==
  InvalidClearMac =>
    /\ exc = "ValueError"
    /\ sess = pre
    /\ EventsSince(pre, sess) = {}

C3_Witness ==
  /\ call.op = "clear_mac_table"
  /\ BothScopes
  /\ call.platform = "ios-xe"
  /\ pre.ssh = "None"
  /\ exc = "ValueError"

LookupFails ==
  \/ ~inv.device
  \/ inv.slug = ""
  \/ inv.slug \notin DOMAIN PLATFORM_MAP
  \/ call.op \in ServiceOps /\ ~inv.iface

LookupError ==
  IF call.op = "clear-dhcp" /\ ~Truthy(call.ip_address) THEN "HTTP400 ip_address"
  ELSE IF ~inv.device THEN "HTTP404 device"
  ELSE IF inv.slug = "" THEN "HTTP400 platform unset"
  ELSE IF inv.slug \notin DOMAIN PLATFORM_MAP THEN "HTTP400 platform unmapped"
  ELSE "HTTP404 interface"

\* C4: when the device is missing from the inventory, or its platform is
\* unset or unmapped, or (compare, apply) the interface is missing, the
\* handler fails with that error, no DeviceClient is constructed and no
\* connection is attempted; a constructed client always carries the
\* dialects the registry maps the device's own platform to.
C4_NoClientOnLookupFailure ==
  /\ (pc # "idle" /\ call.op \in Ops /\ LookupFails) =>
       /\ nclients = 0
       /\ sess.log = <<>>
  /\ (Handled /\ call.op \in OpsRoutes \cup ServiceOps /\ LookupFails) =>
       outcome = LookupError
  /\ (call.op \in Ops /\ nclients > 0) =>
       /\ inv.slug \in DOMAIN PLATFORM_MAP
       /\ sess.netconf_device_name = PLATFORM_MAP[inv.slug].netconf
       /\ sess.netmiko_device_type = PLATFORM_MAP[inv.slug].netmiko

C4_Witness ==
  /\ Handled
  /\ inv.device
  /\ inv.slug = "fortios"
  /\ outcome = "HTTP400 platform unmapped"
  /\ nclients = 0

\* C5: when the inventory lookups succeed and every connection and query
\* of the session succeeds, compare returns a result.
C5_CompareReturns ==
  (/\ Handled
   /\ call.op = "compare-config"
   /\ ~LookupFails
   /\ \A i \in DOMAIN sess.log : sess.log[i].ok) =>
     outcome = "ok"


(***************************************************************************)
(* The compiler: L2 access ports and the admin-state line.                 *)
(***************************************************************************)
Compiled == fpc \in {"compiled", "compiled-compared"}

EmptyDescription == ~Truthy(Get(nb_iface, "description", <<>>))

AccessPort ==
  /\ ~IPv4Assigned
  /\ Get(nb_iface, "mode", "None") = "access"
  /\ Truthy(Get(nb_iface, "untagged_vlan", None))

\* C11: an L2 access port with no IPv4 address, an empty description, an
\* untagged VLAN v and include_admin_state=false compiles to exactly
\* ["switchport", "switchport mode access", "switchport access vlan v"];
\* an empty description never gives a description line.
C11_AccessPortLines ==
  Compiled =>
    /\ EmptyDescription => \A i \in DOMAIN lines : Head(lines[i]) # "description"
    /\ (AccessPort /\ EmptyDescription /\ ~include_admin) =>
         lines = << <<"switchport">>,
                    <<"switchport", " ", "mode", " ", "access">>,
                    <<"switchport", " ", "access", " ", "vlan", " ">>
                      \o Str(nb_iface.untagged_vlan.vid) >>

C11_Witness ==
  /\ fpc = "compiled"
  /\ nb_ips = <<>>
  /\ nb_iface.description = <<>>
  /\ nb_iface.mode = "access"
  /\ nb_iface.untagged_vlan = [vid |-> 10]
  /\ "enabled" \in DOMAIN nb_iface
  /\ nb_iface.enabled
  /\ ~include_admin
  /\ lines[3] = <<"switchport", " ", "access", " ", "vlan", " ", "10">>

AdminStateLines == { <<"shutdown">>, <<"no", " ", "shutdown">> }

IsAdminLine(ln) == ln \in AdminStateLines

MentionsShutdown(ls) == \E i \in DOMAIN ls : Contains(ls[i], <<"shutdown">>)

\* C12: the compiled lines hold exactly one admin-state line, "no shutdown"
\* for an enabled interface and "shutdown" otherwise, when include_admin_state
\* is true and none when it is false; the intended lines and the diff of a
\* compare result never mention "shutdown", even when the device block does.
C12_AdminStateLine ==
  /\ Compiled =>
       SelectSeq(lines, IsAdminLine) =
         (IF ~include_admin THEN <<>>
          ELSE IF Get(nb_iface, "enabled", TRUE) THEN << <<"no", " ", "shutdown">> >>
          ELSE << <<"shutdown">> >>)
  /\ fpc = "compiled-compared" =>
       /\ ~MentionsShutdown(result.config.intended_lines)
       /\ ~MentionsShutdown(result.config.diff)

C12_Witness ==
  /\ fpc = "compiled-compared"
  /\ include_admin
  /\ "enabled" \in DOMAIN nb_iface
  /\ ~nb_iface.enabled
  /\ SelectSeq(lines, IsAdminLine) = << <<"shutdown">> >>
  /\ raw = << <<"shutdown">> >>
  /\ Len(result.config.intended_lines) = 3
  /\ Len(result.config.diff) > 0


(***************************************************************************)
(* apply_interface_merge.                                                  *)
(***************************************************************************)
IsSend(e) == e.ev = "ssh_send"

NoIpAddress == <<"no", " ", "ip", " ", "address">>

IsNotNoIp(ln) == ln # NoIpAddress

\* cmds is "interface <name>", then the compiled lines in order, with
\* "no ip address" exactly in front of every "ip address " line.
MergeListOf(cmds, name, compiled) ==
  /\ Len(cmds) >= 1
  /\ cmds[1] = <<"interface", " ">> \o name
  /\ SelectSeq(Tail(cmds), IsNotNoIp) = compiled
  /\ \A i \in DOMAIN cmds :
       /\ IsIpLine(cmds[i]) => (i > 1 /\ cmds[i - 1] = NoIpAddress)
       /\ cmds[i] = NoIpAddress => (i < Len(cmds) /\ IsIpLine(cmds[i + 1]))

\* C13: apply sends the list "interface <name>", the lines compiled with the
\* admin state included, "no ip address" immediately before every
\* "ip address " line, as one config push over SSH, and returns that list as
\* "commands".
C13_ApplyCommandList ==
  (pc \in {"finally", "done"} /\ call.op = "apply-merge" /\ nclients = 1) =>
    /\ include_admin
    /\ lines = nb_to_intended_lines(platform, nb_iface, nb_ips, TRUE)
    /\ platform \in {"ios", "ios-xe"} => Len(SelectSeq(lines, IsAdminLine)) = 1
    /\ Len(SelectSeq(sess.log, IsSend)) <= 1
    /\ \A i \in DOMAIN sess.log :
         IsSend(sess.log[i]) =>
           /\ sess.log[i].kind = "config"
           /\ MergeListOf(sess.log[i].cmds, call.interface, lines)
    /\ exc = "none" =>
         /\ Len(SelectSeq(sess.log, IsSend)) = 1
         /\ ret.commands = SelectSeq(sess.log, IsSend)[1].cmds

C13_Witness ==
  /\ Handled
  /\ call.op = "apply-merge"
  /\ nclients = 1
  /\ exc = "none"
  /\ Len(ret.commands) = 6
  /\ ret.commands[4] = <<"shutdown">>
  /\ ret.commands[5] = NoIpAddress
  /\ IsIpLine(ret.commands[6])


(***************************************************************************)
(* The normalizer.                                                         *)
(***************************************************************************)
Normalized == fpc \in {"normalized", "renormalized", "permuted"}

\* C14: under either policy, normalizing the output of normalize_lines again
\* gives the same list.
C14_NormalizeIdempotent == fpc = "renormalized" => nout2 = nout

C14_Witness ==
  /\ fpc = "renormalized"
  /\ nmode = "all"
  /\ Len(nlines) = 2
  /\ Len(nout) = 2
  /\ nout # nlines
  /\ nout2 = nout

\* C15: under either policy, every permutation of a list normalizes to the
\* same list.
C15_NormalizeOrderInvariant == fpc = "permuted" => nout2 = nout

C15_Witness ==
  /\ fpc = "permuted"
  /\ nlines = ScenarioCLines
  /\ nperm # nlines
  /\ nperm[1] = <<"end">>
  /\ Len(nout) = 2
  /\ nout2 = nout

AllowedPrefix(ln) ==
  \/ StartsWith(ln, <<"description", " ">>)
  \/ StartsWith(ln, <<"no", " ", "switchport">>)
  \/ StartsWith(ln, <<"switchport", " ">>)
  \/ StartsWith(ln, <<"ip", " ", "address", " ">>)

\* C16 as stated: every line of a managed-policy output starts with
\* "description ", "no switchport", "switchport " or "ip address ".
C16_WhitelistPrefix ==
  (Normalized /\ nmode = "managed") => \A i \in DOMAIN nout : AllowedPrefix(nout[i])

\* C16 amended: every line of a managed-policy output starts, compared
\* without regard to letter case, with "description ", "no switchport",
\* "switchport " or "ip address "; the line itself keeps the case of the input.
C16_WhitelistPrefixAnyCase ==
  (Normalized /\ nmode = "managed") =>
    \A i \in DOMAIN nout :
      /\ AllowedPrefix(Lower(nout[i]))
      /\ \E j \in DOMAIN nlines : nout[i] = CollapseWS(Strip(nlines[j]))

C16_Witness ==
  /\ fpc = "normalized"
  /\ nmode = "managed"
  /\ Len(nlines) = 2
  /\ nlines[2] = <<"mtu", " ", "9000">>
  /\ nout = << <<"Description", " ", "uplink">> >>

NoiseToken(ln) ==
  \/ Lower(ln) \in {<<"!">>, <<"end">>}
  \/ StartsWith(Lower(ln), <<"building", " ", "configuration">>)
  \/ StartsWith(Lower(ln), <<"current", " ", "configuration">>)

Trimmed(ln) ==
  /\ ln # <<>>
  /\ Head(ln) \notin WS
  /\ ln[Len(ln)] \notin WS
  /\ \A i \in DOMAIN ln : ln[i] \in WS => (ln[i] = " " /\ ln[i + 1] \notin WS)

\* C17: under either policy the output is strictly ascending in string
\* order (so sorted and free of duplicates), holds no blank line and no
\* "!", "end" or banner line, and every line is trimmed with single spaces;
\* the list of scenario C normalizes (managed) to
\* ["description uplink", "ip address 10.0.0.1 255.255.255.0"].
C17_NormalForm ==
  Normalized =>
    /\ \A i \in DOMAIN nout : Trimmed(nout[i]) /\ ~NoiseToken(nout[i])
    /\ \A i \in 1..(Len(nout) - 1) : StrLess(nout[i], nout[i + 1])
    /\ (nlines = ScenarioCLines /\ nmode = "managed") =>
         nout = << <<"description", " ", "uplink">>, Ip4Mask >>

C17_Witness ==
  /\ fpc = "normalized"
  /\ nmode = "managed"
  /\ nlines = ScenarioCLines
  /\ Len(nout) = 2


(***************************************************************************)
(* Channel establishment over the life of one DeviceClient.                *)
(***************************************************************************)
LogIdx(s, name) == {i \in DOMAIN s.log : s.log[i].ev = name}

Connected(s, name) == {i \in LogIdx(s, name) : s.log[i].ok}

\* C18: constructing a DeviceClient attempts the NETCONF connection exactly
\* once, as the first thing the client does; a failed attempt leaves the
\* client constructed with self.netconf = None, and no later method call or
\* close() makes another NETCONF connection attempt.
C18_NetconfAttemptedOnce ==
  (pc = "open") =>
    /\ nclients = 1
    /\ LogIdx(sess, "nc_connect") = {1}
    /\ sess.log[1].ok <=> sess.netconf # "None"
    /\ (~sess.log[1].ok) => LogIdx(sess, "nc_rpc") = {}

\* A client whose NETCONF attempt failed has been used for a NETCONF-only
\* method (which failed on the missing session) and for a second call.
C18_Witness ==
  /\ pc = "open"
  /\ ~sess.log[1].ok
  /\ ncalls = 2
  /\ call.op \in {"clear_dhcp", "restart"}
  /\ exc = "AttributeError"

\* C19: on one DeviceClient the SSH connection is established at most once;
\* it is not established before the first method that sends a CLI command
\* (the connect is directly followed by that method's send); once it is
\* established no further connect is attempted and every later CLI send goes
\* over it.
C19_SshEstablishedOnce ==
  (pc = "open") =>
    /\ Cardinality(Connected(sess, "ssh_connect")) <= 1
    /\ (ncalls = 0) => (sess.ssh = "None" /\ LogIdx(sess, "ssh_connect") = {})
    /\ (sess.ssh # "None") <=> (Connected(sess, "ssh_connect") # {})
    /\ \A i \in Connected(sess, "ssh_connect") :
         /\ i < Len(sess.log)
         /\ IsSend(sess.log[i + 1])
         /\ \A j \in LogIdx(sess, "ssh_connect") : j <= i
    /\ \A k \in LogIdx(sess, "ssh_send") :
         \E i \in Connected(sess, "ssh_connect") : i < k

\* Two method calls have each sent a CLI command, the second one over the
\* connection the first one opened.
C19_Witness ==
  /\ pc = "open"
  /\ ncalls = 2
  /\ Cardinality(Connected(sess, "ssh_connect")) = 1
  /\ Cardinality(LogIdx(sess, "ssh_send")) >= 2
  /\ pre.ssh # "None"
  /\ \E k \in LogIdx(sess, "ssh_send") : k > Len(pre.log)

\* C20: close() is idempotent and safe on an unopened session: a second
\* close() makes no teardown call on a channel the first close() released and
\* does not raise, and close() on a client with neither channel established
\* makes no teardown call at all.
C20_CloseIdempotent ==
  (pc = "open" /\ call.op = "close") =>
    /\ (\E i \in Connected(pre, "nc_close") : TRUE) =>
         "nc_close" \notin EventsSince(pre, sess)
    /\ (\E i \in Connected(pre, "ssh_disconnect") : TRUE) =>
         "ssh_disconnect" \notin EventsSince(pre, sess)
    /\ (closeCalls >= 2) => cexc = "none"
    /\ (pre.netconf = "None" /\ pre.ssh = "None") =>
         (EventsSince(pre, sess) = {} /\ cexc = "none")


(***************************************************************************)
(* Interactive confirmation of the state-changing CLI commands.            *)
(***************************************************************************)
InteractiveOps == {"clear-counters", "clear-dhcp-binding", "mac-table/clear"}

Enter == << <<"\n">> >>

\* The sends of the method the handler called, in order.
BodySends == SelectSeq(SubSeq(sess.log, Len(pre.log) + 1, Len(sess.log)), IsSend)

ConfirmCue(reply) == InText(LowerText(reply), <<"confirm">>)

Output(r) == IF call.op = "mac-table/clear" THEN r.output ELSE r

\* C21: when clear_counters, clear_dhcp_binding or clear_mac_table returns,
\* the bare Enter was sent if and only if the first reply of the device holds
\* a confirmation cue, and the returned output is the first reply followed by
\* the reply to the Enter when one was sent.
C21_ConfirmOnlyOnCue ==
  (pc = "finally" /\ call.op \in InteractiveOps /\ exc = "none") =>
    /\ Len(BodySends) \in {1, 2}
    /\ (Len(BodySends) = 2) <=> ConfirmCue(BodySends[1].reply)
    /\ (Len(BodySends) = 2) => BodySends[2].cmds = Enter
    /\ Output(ret) = (IF Len(BodySends) = 2
                      THEN BodySends[1].reply \o BodySends[2].reply
                      ELSE BodySends[1].reply)


(***************************************************************************)
(* The streaming counters feed.                                            *)
(***************************************************************************)
Streaming == pc \notin {"idle", "accepted"} /\ nclients > 0

\* One client, one SSH connection, no poll after a poll that raised, and
\* close() exactly once when the handler has ended.
StreamScoped ==
  Streaming =>
    /\ nclients = 1
    /\ Cardinality(LogIdx(sess, "ssh_connect")) <= 1
    /\ \A k \in LogIdx(sess, "ssh_send") :
         /\ \E i \in Connected(sess, "ssh_connect") : i < k
         /\ ~sess.log[k].ok => \A j \in LogIdx(sess, "ssh_send") : j <= k
    /\ (exc # "none") => pc \in {"except", "finally", "done"}
    /\ closeCalls = (IF pc = "done" THEN 1 ELSE 0)

\* C22: a streaming counters feed acquires exactly one DeviceClient and uses
\* its one SSH connection for every poll; once the consumer has disconnected
\* or a poll has raised no further poll is issued, and close() is called
\* exactly once on every exit path.
C22_StreamTeardown == StreamScoped /\ (Streaming => stale = 0)

\* Every feed that has a client and whose consumer is gone or whose poll
\* raised ends with close().
StreamEventuallyClosed ==
  (Streaming /\ ncalls < MaxPolls /\ (consumer = "disconnected" \/ exc # "none"))
    ~> (closeCalls = 1)

HandlerStep ==
  RejectParams \/ Open \/ EnsureSsh \/ Poll \/ Send \/ Wake \/ Except \/ StreamFinally

SpecStreamFair == SpecStream /\ WF_vars(HandlerStep)


\* C26: every DeviceClient the backend constructs carries the netconf and
\* netmiko dialects that the platform registry maps the device's platform
\* to; none is constructed on the constructor's defaults without a lookup.
C26_DialectFromRegistry ==
  (nclients > 0) =>
    /\ drivers # None
    /\ inv.slug \in DOMAIN PLATFORM_MAP
    /\ sess.netconf_device_name = PLATFORM_MAP[inv.slug].netconf
    /\ sess.netmiko_device_type = PLATFORM_MAP[inv.slug].netmiko


(***************************************************************************)
(* Ownership of sessions under concurrent requests.                        *)
(***************************************************************************)
Holding(r) == reqs[r].pc \in {"try", "finally"}

\* C23: under any interleaving of concurrent compare, apply and ops requests
\* each request uses only the DeviceClient it constructed itself: no object
\* is used or closed by two requests, two requests never refer to the same
\* object, and every channel of a client whose request is still running is
\* open, whatever other requests have closed.
C23_SessionsNotShared ==
  (reqs # <<>>) =>
    /\ \A i \in DOMAIN heap :
         /\ heap[i].users \subseteq {heap[i].maker}
         /\ heap[i].closers \subseteq {heap[i].maker}
    /\ \A r \in Reqs : (reqs[r].client # 0) =>
         /\ reqs[r].client \in DOMAIN heap
         /\ heap[reqs[r].client].maker = r
    /\ \A r \in Reqs : Holding(r) =>
         LET i == reqs[r].client IN
           /\ (heap[i].s.netconf # "None") => [client |-> i, kind |-> "netconf"] \in channels
           /\ (heap[i].s.ssh # "None") => [client |-> i, kind |-> "ssh"] \in channels

\* Two requests against the same host: one has closed its session, both of
\* its channels released, while the other still holds an open SSH connection.
C23_Witness ==
  /\ reqs # <<>>
  /\ \E r, q \in Reqs :
       /\ r # q
       /\ reqs[r].host = reqs[q].host
       /\ reqs[r].pc = "done"
       /\ heap[reqs[r].client].closers = {r}
       /\ \A c \in channels : c.client # reqs[r].client
       /\ reqs[q].pc = "finally"
       /\ heap[reqs[q].client].s.ssh # "None"
       /\ reqs[q].client < reqs[r].client


(***************************************************************************)
(* The operations that need the NETCONF session.                           *)
(***************************************************************************)
NetconfOps == {"clear-dhcp", "shutdown", "no-shutdown", "restart-interface"}

\* C24: on a client whose NETCONF session is absent, clear_dhcp, shutdown,
\* no_shutdown and restart fail with the explicit "NETCONF session is not
\* available" RuntimeError of _require_netconf, and dispatch no RPC.
C24_ChannelUnavailable ==
  (/\ pc = "finally"
   /\ call.op \in NetconfOps
   /\ pre.netconf = "None"
   /\ (call.op = "clear-dhcp" \/ InterfaceTypeKnown(call.interface))) =>
    /\ exc = "RuntimeError"
    /\ LogIdx(sess, "nc_rpc") = {}

\* The edits that the last method call issued, in order.
CallEdits ==
  SelectSeq(SubSeq(sess.log, Len(pre.log) + 1, Len(sess.log)),
            LAMBDA e : e.ev = "nc_rpc")

ShutEdit(e) == e.rpc = "edit-config shutdown"

UnshutEdit(e) == e.rpc = "edit-config no shutdown"

\* C29: restart issues the shutdown edit strictly before the no-shutdown
\* edit, issues the no-shutdown edit only when the shutdown edit returned
\* without error, and when it returns normally both edits were issued in that
\* order and succeeded, the no-shutdown being the last edit of the device.
C29_RestartOrder ==
  (pc = "open" /\ call.op = "restart") =>
    /\ Len(CallEdits) <= 2
    /\ (Len(CallEdits) >= 1) => ShutEdit(CallEdits[1])
    /\ (Len(CallEdits) = 2) => (CallEdits[1].ok /\ UnshutEdit(CallEdits[2]))
    /\ (exc = "none") =>
         /\ Len(CallEdits) = 2
         /\ CallEdits[2].ok
         /\ UnshutEdit(sess.log[Len(sess.log)])

\* restart has returned normally on a client with a NETCONF session.
C29_Witness ==
  /\ pc = "open"
  /\ call.op = "restart"
  /\ exc = "none"
  /\ Len(CallEdits) = 2


(***************************************************************************)
(* The dialect of what is pushed.                                          *)
(***************************************************************************)
CiscoPlatforms == {"ios", "ios-xe"}

\* C25: applyMerge sends Cisco-syntax lines, the "interface <name>" command
\* included, only to a device whose platform is ios or ios-xe; for a mapped
\* platform without a compiler (nxos, junos, eos) nothing is pushed.
C25_CiscoLinesToCiscoOnly ==
  (/\ pc \in {"finally", "done"}
   /\ call.op = "apply-merge"
   /\ nclients = 1
   /\ platform \notin CiscoPlatforms) =>
    LogIdx(sess, "ssh_send") = {}


(***************************************************************************)
(* The two compilers.                                                      *)
(***************************************************************************)
\* C30: the legacy compiler of main.py and the compiler of
\* services/interface_intent.py return the same lines in the same order for
\* every interface record, IP list and include_admin flag.
C30_CompilersEquivalent ==
  (fpc = "compiled-main") => lines_main = lines


(***************************************************************************)
(* L2 trunks.                                                              *)
(***************************************************************************)
TrunkPort ==
  /\ ~IPv4Assigned
  /\ Get(nb_iface, "mode", "None") \in {"tagged", "tagged-all"}

AllowedPrefixLine == <<"switchport", " ", "trunk", " ", "allowed", " ", "vlan", " ">>

NativePrefixLine == <<"switchport", " ", "trunk", " ", "native", " ", "vlan", " ">>

LinesWith(prefix) == {i \in DOMAIN lines : StartsWith(lines[i], prefix)}

\* C27: an L2 trunk with no IPv4 address compiles to "switchport" and
\* "switchport mode trunk"; the line "switchport trunk allowed vlan <list>"
\* is emitted if and only if the mode is "tagged" and there is at least one
\* tagged VLAN id, never for "tagged-all"; the line "switchport trunk native
\* vlan <v>" is emitted exactly when an untagged VLAN is set.
C27_TrunkLines ==
  (Compiled /\ TrunkPort) =>
    /\ \E i \in DOMAIN lines :
         /\ i < Len(lines)
         /\ lines[i] = <<"switchport">>
         /\ lines[i + 1] = <<"switchport", " ", "mode", " ", "trunk">>
    /\ (LinesWith(AllowedPrefixLine) # {}) <=>
         (nb_iface.mode = "tagged" /\ Len(nb_iface.tagged_vlans) >= 1)
    /\ \A i \in LinesWith(AllowedPrefixLine) :
         lines[i] = AllowedPrefixLine
                      \o Join(<<",">>, [k \in DOMAIN nb_iface.tagged_vlans |->
                                          Str(nb_iface.tagged_vlans[k].vid)])
    /\ Cardinality(LinesWith(AllowedPrefixLine)) <= 1
    /\ (LinesWith(NativePrefixLine) # {}) <=> Truthy(nb_iface.untagged_vlan)
    /\ \A i \in LinesWith(NativePrefixLine) :
         lines[i] = NativePrefixLine \o Str(nb_iface.untagged_vlan.vid)

\* An all-VLANs trunk that has tagged VLANs and a native VLAN in the
\* inventory: no allowed list, one native line.
C27_Witness ==
  /\ Compiled
  /\ TrunkPort
  /\ nb_iface.mode = "tagged-all"
  /\ Len(nb_iface.tagged_vlans) = 2
  /\ LinesWith(NativePrefixLine) # {}


(***************************************************************************)
(* The compiled lines in the comparison.                                   *)
(***************************************************************************)
\* compare has run on a record whose lines were compiled without admin state.
ComparedIntent == fpc = "compiled-compared" /\ ~include_admin

LineSet(l) == {l[i] : i \in DOMAIN l}

StrictlySorted(l) == \A i, j \in DOMAIN l : i < j => StrLess(l[i], l[j])

\* C28 as stated: every line compiled with include_admin_state=false is
\* retained by managed normalization, so intended_lines of a compare result
\* is exactly the deduplicated sorted set of the compiled lines.
C28_AllCompiledLinesCompared ==
  ComparedIntent =>
    /\ LineSet(result.config.intended_lines) = LineSet(lines)
    /\ StrictlySorted(result.config.intended_lines)

\* C28 as the code has it: the bare "switchport" line does not match the
\* whitelist prefix "switchport " and is dropped; every other compiled line
\* is retained, whitespace-collapsed, and intended_lines is the deduplicated
\* sorted set of those.
C28_CompiledLinesButSwitchport ==
  ComparedIntent =>
    /\ LineSet(result.config.intended_lines) =
         {CleanLine(ln) : ln \in LineSet(lines) \ {<<"switchport">>}}
    /\ StrictlySorted(result.config.intended_lines)

\* An L2 port with a description: "switchport" was compiled and is missing
\* from intended_lines, the other lines are there.
C28_Witness ==
  /\ ComparedIntent
  /\ <<"switchport">> \in LineSet(lines)
  /\ Len(lines) >= 4
  /\ Len(result.config.intended_lines) = Len(lines) - 1

=============================================================================
